---- MODULE Spec2Model ----
(***************************************************************************)
(* Durak rule engine (open_spiel/games/durak): the base game DurakState    *)
(* (durak.cc) and the transfer variant DurakWithTransfersState             *)
(* (durak_with_transfers.cc).                                              *)
(*                                                                         *)
(* A game state is the record of the C++ object's fields.  Every member    *)
(* function that changes the object is an operator from state record to    *)
(* state record, written after its code; the actions of the state machine  *)
(* apply State::ApplyAction to one legal action.  C++ vectors are          *)
(* sequences: index i of the code is index i + 1 here.                     *)
(*                                                                         *)
(* The helpers CanDefendCard, DecideFirstAttacker, DefenderTakesCards,     *)
(* AttackerFinishesAttack, DefenderFinishesDefense, RefillHands,           *)
(* CheckGameOver, CurrentPlayer, Returns and ChanceOutcomes have the same  *)
(* text in both classes and are modelled once; LegalActions, DoApplyAction *)
(* and ApplyChanceAction differ and the transfer variant's versions carry  *)
(* the suffix T.                                                           *)
(***************************************************************************)
EXTENDS Integers, Sequences, FiniteSets, TLC

\* ------------------------------------------------------------------------
\* Program constants (durak.h, durak_with_transfers.h)
\* ------------------------------------------------------------------------
kNumPlayers == 2
kNumCards == 36
kCardsPerPlayer == 6
kExtraActionTakeCards == kNumCards
kExtraActionFinishAttack == kNumCards + 1
kExtraActionFinishDefense == kNumCards + 2
kExtraActionTransfer == kNumCards + 3

\* enum class RoundPhase
kChance == 0
kAttack == 1
kDefense == 2
kAdditional == 3

\* Player ids of the chance player and of a finished game.
kChancePlayerId == -1

kTerminalPlayerId == -4

\* DurakGame::MaxGameLength() and DurakWithTransfersGame::MaxGameLength()
MaxGameLength == 300

SuitOf(card) == card \div 9
RankOf(card) == card % 9

\* ------------------------------------------------------------------------
\* Bound of the exploration and the recorded games it follows
\* ------------------------------------------------------------------------
\* A behaviour starts from the new initial state of one of the games below
\* and applies legal actions only.  Along the recorded line of its game it
\* may leave the line at any state by any other legal action; MaxOff is the
\* number of legal actions it may take once away from the line.
MaxOff == 3

\* Game 1: base game in which the last card of the deck is drawn in the
\* middle of a round.
Deck1 ==
  << 1, 3, 28, 8, 4, 7, 13, 10, 14, 17, 19, 18, 23, 20, 25, 24, 29, 26, 33,
     30, 35, 0, 9, 11, 21, 34, 2, 31, 5, 12, 22, 15, 32, 6, 16, 27 >>

Line1 ==
  << 1, 37, 3, 37, 38, 8, 37, 28, 37, 38, 4, 37, 7, 37, 38, 10, 37, 13, 37,
     38, 14, 37, 17, 37, 38, 18, 37, 19, 37, 38, 20, 37, 23, 37, 38, 24, 37,
     25, 37, 38, 26, 37, 29, 37, 38, 30, 37, 33, 37, 38, 0, 9, 37, 36, 34,
     37, 35, 37, 38, 0, 37, 2, 11, 37, 12, 21, 37, 22, 31, 37, 32, 5, 37, 6,
     15, 37, 16, 9 >>

\* Game 2: base game, player 1 attacks first.
Deck2 ==
  << 7, 3, 35, 14, 19, 20, 33, 29, 28, 9, 26, 10, 23, 2, 18, 32, 17, 8, 31,
     13, 4, 34, 21, 22, 0, 12, 11, 1, 15, 25, 24, 30, 27, 5, 6, 16 >>

Line2 ==
  << 20, 29, 37, 26, 33, 37, 38, 18, 37, 10, 28, 19, 37, 32, 9, 23, 37, 14,
     37, 38, 21, 3, 37, 22, 13, 31, 4, 37, 34, 7, 37, 38, 35, 8, 37, 17, 12,
     37, 38, 1, 37, 11, 2, 37, 5, 37, 38, 24, 37, 25, 16, 15, 37, 36, 0 >>

\* Game 3: transfer variant with two transfers.
Deck3 ==
  << 6, 30, 13, 25, 16, 31, 33, 17, 24, 14, 18, 4, 12, 9, 2, 1, 7, 19, 3, 21,
     22, 34, 29, 32, 28, 20, 11, 35, 5, 26, 15, 10, 27, 0, 23, 8 >>

Line3 ==
  << 30, 37, 6, 37, 38, 24, 33, 37, 25, 4, 16, 13, 37, 17, 14, 37, 38, 9, 37,
     39, 18, 37, 2, 22, 37, 38, 29, 20, 37, 32, 1, 28, 37, 34, 37, 38, 19,
     37, 39, 10, 37, 5, 15, 37, 38, 21, 12, 37, 3, 0, 27, 37, 31, 37, 38, 7,
     37, 8, 26, 35 >>

\* Game 4: transfer variant, no trump card in either hand at the reveal.
Deck4 ==
  << 8, 31, 10, 34, 6, 5, 11, 7, 27, 1, 2, 4, 24, 26, 12, 13, 14, 25, 0, 32,
     35, 33, 21, 18, 15, 3, 28, 17, 20, 22, 29, 23, 30, 9, 16, 19 >>

Line4 ==
  << 6, 37, 7, 37, 38, 5, 37, 8, 37, 38, 11, 2, 37, 13, 4, 37, 38, 14, 37,
     26, 37, 38, 32, 37, 24, 37, 38, 0, 37, 25, 34, 37, 35, 37, 38, 28, 10,
     37, 31, 21, 12, 37, 17, 37, 38, 30, 3, 37, 22, 23, 37, 38, 18, 27, 9,
     37, 20, 19, 36, 15, 37, 39, 33, 37, 16 >>

\* Game 5: base game with more than six table entries.
Deck5 ==
  << 30, 6, 34, 17, 22, 1, 13, 27, 32, 12, 8, 15, 23, 29, 5, 3, 24, 7, 11,
     14, 19, 25, 35, 9, 21, 18, 10, 16, 0, 33, 20, 2, 31, 4, 28, 26 >>

Line5 ==
  << 30, 37, 36, 8, 37, 36, 32, 23, 37, 36, 34, 37, 23, 5, 37, 8, 37, 38, 1,
     37, 3, 30, 12, 37, 24, 13, 15, 6, 37, 22, 7, 37, 38, 21, 37, 25, 37, 38,
     14, 32, 37, 18, 35, 17, 9, 27, 37, 19, 16, 29, 10, 37, 11, 20, 0, 28,
     37, 26, 2, 33, 37, 38, 4 >>

\* Game 6: base game on the unshuffled deck; no trump card in either hand
\* at the reveal; no recorded line.
Deck6 ==
  << 0, 1, 2, 3, 4, 5, 6, 7, 8, 9, 10, 11, 12, 13, 14, 15, 16, 17, 18, 19,
     20, 21, 22, 23, 24, 25, 26, 27, 28, 29, 30, 31, 32, 33, 34, 35 >>

Line6 == << >>

\* Game 7: transfer variant, three trump cards in each hand, the lowest
\* in hand 1; no recorded line.
Deck7 ==
  << 25, 26, 3, 19, 20, 1, 30, 33, 8, 21, 24, 10, 0, 4, 6, 9, 12, 14, 16, 18,
     27, 29, 32, 35, 34, 31, 28, 23, 17, 15, 13, 11, 7, 5, 2, 22 >>

Line7 == << >>

\* Game 8: base game, four trump cards in each hand, the lowest the fourth
\* card of hand 0; no recorded line.
Deck8 ==
  << 7, 1, 2, 3, 12, 20, 0, 28, 30, 6, 5, 8, 9, 11, 14, 16, 18, 21, 23, 25,
     27, 31, 33, 35, 34, 32, 29, 26, 24, 22, 19, 17, 15, 13, 10, 4 >>

Line8 == << >>

\* Game 9: base game of more than 300 player actions.  While the deck has
\* cards the attacker lays one card at a time and the defender takes it;
\* later the player with the many cards hands them over one by one, and
\* the roles are swapped by a covered attack when the attacker is down to
\* two cards.
Deck9 ==
  << 34, 22, 2, 30, 19, 27, 23, 17, 33, 10, 11, 18, 5, 1, 9, 32, 35, 29, 21,
     13, 26, 0, 28, 3, 6, 25, 12, 20, 15, 14, 24, 31, 7, 16, 4, 8 >>

Line9 ==
  << 2, 37, 36, 11, 37, 36, 34, 37, 36, 33, 37, 36, 19, 37, 36, 9, 37, 36,
     32, 37, 36, 35, 37, 36, 13, 37, 36, 29, 37, 36, 5, 37, 36, 23, 37, 36,
     0, 37, 36, 1, 37, 36, 3, 37, 36, 6, 37, 36, 12, 37, 36, 21, 37, 36, 14,
     37, 36, 20, 37, 36, 25, 37, 36, 7, 37, 36, 28, 37, 36, 16, 37, 36, 26,
     37, 36, 31, 37, 36, 15, 37, 36, 24, 37, 36, 4, 37, 5, 37, 38, 22, 37,
     36, 25, 37, 36, 21, 37, 36, 11, 37, 36, 29, 37, 36, 16, 37, 36, 30, 37,
     36, 6, 37, 36, 19, 37, 36, 3, 37, 36, 14, 37, 36, 28, 37, 36, 9, 37, 36,
     0, 37, 36, 32, 37, 36, 35, 37, 36, 31, 37, 36, 1, 37, 36, 24, 37, 36,
     27, 37, 36, 13, 37, 36, 20, 37, 36, 15, 37, 36, 10, 37, 36, 2, 37, 36,
     23, 37, 36, 17, 37, 36, 26, 37, 36, 33, 37, 36, 7, 37, 36, 12, 37, 36,
     18, 37, 0, 37, 38, 19, 37, 36, 3, 37, 36, 13, 37, 36, 1, 37, 36, 27, 37,
     36, 32, 37, 36, 2, 37, 36, 22, 37, 36, 15, 37, 36, 6, 37, 36, 24, 37,
     36, 10, 37, 36, 16, 37, 36, 20, 37, 36, 23, 37, 36, 21, 37, 36, 9, 37,
     36, 26, 37, 36, 31, 37, 36, 25, 37, 36, 29, 37, 36, 7, 37, 36, 17, 37,
     36, 35, 37, 36, 14, 37, 36, 12, 37, 36, 8, 37, 36, 33, 37, 36, 11, 37,
     36, 28, 37, 1, 37, 38, 17, 37, 36, 11, 37, 36, 25, 37, 36, 31, 37, 36,
     29, 37, 36, 16, 37, 36, 12, 37, 36, 32, 37, 36, 2, 37 >>

\* Game 10: transfer variant.  Opening: the attacker lays one card at a time
\* and the defender takes it until the deck is exhausted.  Then a cycle of
\* twelve actions that brings the same state back: attack, Transfer with a
\* card of the same rank, TakeCards, and the same the other way round.
Deck10 ==
  << 0, 19, 14, 21, 22, 17, 33, 30, 7, 5, 10, 13, 35, 1, 28, 23, 8, 3, 20,
     27, 4, 32, 6, 18, 11, 15, 9, 34, 25, 29, 12, 31, 16, 2, 26, 24 >>

Line10Opening ==
  << 19, 37, 36, 21, 37, 36, 17, 37, 36, 30, 37, 36, 5, 37, 36, 13, 37, 36,
     35, 37, 36, 1, 37, 36, 28, 37, 36, 23, 37, 36, 8, 37, 36, 3, 37, 36, 20,
     37, 36, 27, 37, 36, 4, 37, 36, 32, 37, 36, 6, 37, 36, 18, 37, 36, 11,
     37, 36, 15, 37, 36, 9, 37, 36, 34, 37, 36, 25, 37, 36, 29, 37, 36 >>

Line10Cycle ==
  << 12, 37, 39, 21, 37, 36, 30, 37, 39, 21, 37, 36 >>

RECURSIVE Repeat(_, _)
Repeat(line, n) == IF n = 0 THEN << >> ELSE line \o Repeat(line, n - 1)

Line10 == Line10Opening \o Repeat(Line10Cycle, 20)

Games ==
  << [transfers |-> FALSE, deck |-> Deck1, line |-> Line1],
     [transfers |-> FALSE, deck |-> Deck2, line |-> Line2],
     [transfers |-> TRUE, deck |-> Deck3, line |-> Line3],
     [transfers |-> TRUE, deck |-> Deck4, line |-> Line4],
     [transfers |-> FALSE, deck |-> Deck5, line |-> Line5],
     [transfers |-> FALSE, deck |-> Deck6, line |-> Line6],
     [transfers |-> TRUE, deck |-> Deck7, line |-> Line7],
     [transfers |-> FALSE, deck |-> Deck8, line |-> Line8],
     [transfers |-> FALSE, deck |-> Deck9, line |-> Line9],
     [transfers |-> TRUE, deck |-> Deck10, line |-> Line10] >>

\* The games whose surroundings are explored, and the two long games, which
\* are followed along their lines only.
ExploredGames == 1..8

LongGames == { 9, 10 }

\* ------------------------------------------------------------------------
\* std::vector helpers
\* ------------------------------------------------------------------------
\* std::find(v.begin(), v.end(), x) != v.end()
Contains(v, x) == \E i \in 1..Len(v) : v[i] = x

\* v.erase(std::find(v.begin(), v.end(), x)): removes the first x.
Erase(v, x) ==
  LET i == CHOOSE k \in 1..Len(v) :
             v[k] = x /\ \A j \in 1..(k - 1) : v[j] # x
  IN SubSeq(v, 1, i - 1) \o SubSeq(v, i + 1, Len(v))

\* v.back()
Back(v) == v[Len(v)]

\* std::sort(moves.begin(), moves.end())
RECURSIVE InsertSorted(_, _)
InsertSorted(v, x) ==
  IF v = << >> THEN << x >>
  ELSE IF x <= Head(v) THEN << x >> \o v
  ELSE << Head(v) >> \o InsertSorted(Tail(v), x)

RECURSIVE Sort(_)
Sort(v) == IF v = << >> THEN << >> ELSE InsertSorted(Sort(Tail(v)), Head(v))

\* The cards of the table in the order the loops over table_cards_ push
\* them: the attacking card of an entry, then its defending card if any.
RECURSIVE TableCards(_)
TableCards(t) ==
  IF t = << >> THEN << >>
  ELSE (IF Head(t)[2] >= 0 THEN << Head(t)[1], Head(t)[2] >>
        ELSE << Head(t)[1] >>) \o TableCards(Tail(t))

\* RanksOnTable counting every rank next to a rank on the table as well.
RanksOnTable_Neighbours(t) ==
  { r \in 0..8 : \E c \in 1..Len(TableCards(t)) :
      RankOf(TableCards(t)[c]) \in { r - 1, r, r + 1 } }

\* ranks_on_table of the attacker's branch of LegalActions.
RanksOnTable(t) == { RankOf(TableCards(t)[i]) : i \in 1..Len(TableCards(t)) }

\* UncoveredIndex returning the latest uncovered entry instead.
UncoveredIndex_Latest(t) ==
  IF \E i \in 1..Len(t) : t[i][2] < 0
  THEN (CHOOSE i \in 1..Len(t) :
          t[i][2] < 0 /\ \A j \in (i + 1)..Len(t) : t[j][2] >= 0) - 1
  ELSE -1

\* The index (from 0) of the earliest uncovered entry, -1 if none.
UncoveredIndex(t) ==
  IF \E i \in 1..Len(t) : t[i][2] < 0
  THEN (CHOOSE i \in 1..Len(t) :
          t[i][2] < 0 /\ \A j \in 1..(i - 1) : t[j][2] >= 0) - 1
  ELSE -1

\* ------------------------------------------------------------------------
\* Construction
\* ------------------------------------------------------------------------
\* The state after the constructor, for a deck and a variant.
NewInitialState(d, variant) ==
  [ transfers     |-> variant,
    deck          |-> d,
    hands         |-> [p \in 0..(kNumPlayers - 1) |-> << >>],
    table_cards   |-> << >>,
    discard       |-> << >>,
    trump_suit    |-> -1,
    trump_card    |-> -1,
    cards_dealt   |-> 0,
    deck_pos      |-> 0,
    attacker      |-> 0,
    defender      |-> 1,
    phase         |-> kChance,
    round_starter |-> 0,
    last_action   |-> -1,
    game_over     |-> FALSE ]

\* The values of the init_deck parameter tried: the numbers between the
\* commas of a string with a duplicate, of one with a value out of range,
\* and of one with 35 values only.
InitDecks ==
  { [Deck3 EXCEPT ![1] = Deck3[2]],
    [Deck3 EXCEPT ![5] = kNumCards + 4],
    SubSeq(Deck3, 1, kNumCards - 1) }

\* What the int c of the parsing loop can hold when the extraction fails at
\* the end of the string: it is not initialised, so it holds the value read
\* before it or anything else; three other values stand for the rest.
UninitializedInt(numbers) == { numbers[Len(numbers)], 0, 35, 36 }

\* The loop of the constructor over the init_deck string: kNumCards values
\* are pushed to deck_ whatever they are; past the end of the string the
\* value pushed is c.
ParseDeck(numbers, c) ==
  [i \in 1..kNumCards |-> IF i <= Len(numbers) THEN numbers[i] ELSE c]

\* ------------------------------------------------------------------------
\* Queries
\* ------------------------------------------------------------------------

\* CurrentPlayer() routing the Additional phase to the defender.
CurrentPlayer_AdditionalToDefender(s) ==
  IF s.game_over THEN kTerminalPlayerId
  ELSE IF s.phase = kChance THEN kChancePlayerId
  ELSE IF s.phase = kAttack THEN s.attacker
  ELSE s.defender

\* DurakState::CurrentPlayer, DurakWithTransfersState::CurrentPlayer
CurrentPlayer(s) ==
  IF s.game_over THEN kTerminalPlayerId
  ELSE IF s.phase = kChance THEN kChancePlayerId
  ELSE IF s.phase = kAttack \/ s.phase = kAdditional THEN s.attacker
  ELSE s.defender

IsTerminal(s) == s.game_over

IsChanceNode(s) == s.phase = kChance

\* players_with_cards of Returns.
PlayersWithCards(s) ==
  SelectSeq(<< 0, 1 >>, LAMBDA p : s.hands[p] # << >>)

\* Returns() with the signs of the one-hand case exchanged.
Returns_LoserWins(s) ==
  LET with == PlayersWithCards(s) IN
  IF ~s.game_over THEN << 0, 0 >>
  ELSE IF Len(with) = 1
    THEN [p \in 1..2 |-> IF p - 1 = with[1] THEN 1 ELSE -1]
  ELSE IF Len(with) = 2 THEN << 0, 0 >>
  ELSE IF s.deck_pos >= Len(s.deck)
    THEN [p \in 1..2 |-> IF p - 1 = s.attacker THEN 1 ELSE -1]
  ELSE << 0, 0 >>

\* Returns(): the pair of the two players' returns, player 0 first.
Returns(s) ==
  LET with == PlayersWithCards(s) IN
  IF ~s.game_over THEN << 0, 0 >>
  ELSE IF Len(with) = 1
    THEN [p \in 1..2 |-> IF p - 1 = with[1] THEN -1 ELSE 1]
  ELSE IF Len(with) = 2 THEN << 0, 0 >>
  ELSE IF s.deck_pos >= Len(s.deck)
    THEN [p \in 1..2 |-> IF p - 1 = s.attacker THEN 1 ELSE -1]
  ELSE << 0, 0 >>

\* ChanceOutcomes() revealing the card at the deck cursor as trump.
ChanceOutcomes_TopCard(s) ==
  IF s.cards_dealt < kCardsPerPlayer * kNumPlayers
  THEN << << s.deck[s.deck_pos + 1], 1 >> >>
  ELSE IF s.trump_card < 0 THEN << << s.deck[s.deck_pos + 1], 1 >> >>
  ELSE << >>

\* ChanceOutcomes(): the sequence of (outcome, probability) pairs.
ChanceOutcomes(s) ==
  IF s.cards_dealt < kCardsPerPlayer * kNumPlayers
  THEN << << s.deck[s.deck_pos + 1], 1 >> >>
  ELSE IF s.trump_card < 0 THEN << << Back(s.deck), 1 >> >>
  ELSE << >>

\* CanDefendCard in which any two cards of one suit defend each other.
CanDefendCard_SameSuit(s, defense_card, attack_card) ==
  LET att_s == SuitOf(attack_card)
      def_s == SuitOf(defense_card)
  IN IF att_s = def_s THEN TRUE
     ELSE IF def_s = s.trump_suit /\ att_s # s.trump_suit THEN TRUE
     ELSE FALSE

\* CanDefendCard with the rank comparisons weakened to "not lower".
CanDefendCard_NotLower(s, defense_card, attack_card) ==
  LET att_s == SuitOf(attack_card)
      att_r == RankOf(attack_card)
      def_s == SuitOf(defense_card)
      def_r == RankOf(defense_card)
  IN IF att_s = def_s /\ def_r >= att_r THEN TRUE
     ELSE IF def_s = s.trump_suit /\ att_s # s.trump_suit THEN TRUE
     ELSE IF att_s = s.trump_suit /\ def_s = s.trump_suit /\ def_r >= att_r
       THEN TRUE
     ELSE FALSE

CanDefendCard(s, defense_card, attack_card) ==
  LET att_s == SuitOf(attack_card)
      att_r == RankOf(attack_card)
      def_s == SuitOf(defense_card)
      def_r == RankOf(defense_card)
  IN IF att_s = def_s /\ def_r > att_r THEN TRUE
     ELSE IF def_s = s.trump_suit /\ att_s # s.trump_suit THEN TRUE
     ELSE IF att_s = s.trump_suit /\ def_s = s.trump_suit /\ def_r > att_r
       THEN TRUE
     ELSE FALSE

\* ------------------------------------------------------------------------
\* Helpers that change the state
\* ------------------------------------------------------------------------
\* One step of the first loop of a RefillHands pass: player p draws the
\* card at the deck cursor if p holds fewer than 6 cards and a card is left.
DrawIfShort(s, p) ==
  IF Len(s.hands[p]) < kCardsPerPlayer /\ s.deck_pos < Len(s.deck)
  THEN [s EXCEPT !.hands[p] = Append(@, s.deck[s.deck_pos + 1]),
                 !.deck_pos = @ + 1]
  ELSE s

\* RefillHands() stopping after a single pass over the two players.
RefillHands_OnePass(s) ==
  IF ~(s.deck_pos < Len(s.deck)) THEN s
  ELSE DrawIfShort(DrawIfShort(s, s.attacker), s.defender)

\* RefillHands() serving the attacker up to 6 cards before the defender
\* draws.
RECURSIVE RefillHands_AttackerFirstToSix(_)
RefillHands_AttackerFirstToSix(s) ==
  IF ~(s.deck_pos < Len(s.deck)) THEN s
  ELSE LET p == IF Len(s.hands[s.attacker]) < kCardsPerPlayer
                THEN s.attacker ELSE s.defender
           t == DrawIfShort(s, p)
       IN IF t = s THEN s ELSE RefillHands_AttackerFirstToSix(t)

\* RefillHands(): passes over order = {attacker_, defender_} while the deck
\* has cards, until a pass leaves both hands with at least 6 cards.
RECURSIVE RefillHands(_)
RefillHands(s) ==
  IF ~(s.deck_pos < Len(s.deck)) THEN s
  ELSE LET t == DrawIfShort(DrawIfShort(s, s.attacker), s.defender)
           all_full == /\ ~(Len(t.hands[s.attacker]) < kCardsPerPlayer)
                       /\ ~(Len(t.hands[s.defender]) < kCardsPerPlayer)
       IN IF all_full THEN t ELSE RefillHands(t)

\* CheckGameOver() ending the game as soon as the deck is exhausted.
CheckGameOver_DeckOnly(s) ==
  LET p0_empty == s.hands[0] = << >>
      p1_empty == s.hands[1] = << >>
  IN IF s.deck_pos >= Len(s.deck)
       THEN [s EXCEPT !.game_over = TRUE]
     ELSE IF p0_empty /\ p1_empty
       THEN RefillHands(s)
     ELSE s

CheckGameOver(s) ==
  LET p0_empty == s.hands[0] = << >>
      p1_empty == s.hands[1] = << >>
  IN IF (p0_empty \/ p1_empty) /\ s.deck_pos >= Len(s.deck)
       THEN [s EXCEPT !.game_over = TRUE]
     ELSE IF p0_empty /\ p1_empty
       THEN (IF s.deck_pos >= Len(s.deck)
             THEN [s EXCEPT !.game_over = TRUE]
             ELSE RefillHands(s))
     ELSE s

\* The scan of DecideFirstAttacker keeping the trump of the highest rank.
RECURSIVE LowestTrumpScan_Highest(_, _, _, _)
LowestTrumpScan_Highest(cards, trump, lowest_trump, who) ==
  IF cards = << >> THEN << lowest_trump, who >>
  ELSE LET p == Head(cards)[1]
           c == Head(cards)[2]
       IN IF /\ SuitOf(c) = trump
             /\ (lowest_trump < 0 \/ RankOf(c) > RankOf(lowest_trump))
          THEN LowestTrumpScan_Highest(Tail(cards), trump, c, p)
          ELSE LowestTrumpScan_Highest(Tail(cards), trump, lowest_trump, who)

\* The scan of DecideFirstAttacker over the cards of hand 0, then hand 1:
\* cards is the sequence of (player, card) still to visit; the result is
\* the pair (lowest_trump, who).
RECURSIVE LowestTrumpScan(_, _, _, _)
LowestTrumpScan(cards, trump, lowest_trump, who) ==
  IF cards = << >> THEN << lowest_trump, who >>
  ELSE LET p == Head(cards)[1]
           c == Head(cards)[2]
       IN IF /\ SuitOf(c) = trump
             /\ (lowest_trump < 0 \/ RankOf(c) < RankOf(lowest_trump))
          THEN LowestTrumpScan(Tail(cards), trump, c, p)
          ELSE LowestTrumpScan(Tail(cards), trump, lowest_trump, who)

\* DecideFirstAttacker() starting its search with who = 1.
DecideFirstAttacker_DefaultOne(s) ==
  LET cards == [i \in 1..Len(s.hands[0]) |-> << 0, s.hands[0][i] >>]
               \o [i \in 1..Len(s.hands[1]) |-> << 1, s.hands[1][i] >>]
      who == LowestTrumpScan(cards, s.trump_suit, -1, 1)[2]
  IN [s EXCEPT !.attacker = who, !.defender = 1 - who]

\* DurakState::DecideFirstAttacker

DecideFirstAttacker(s) ==
  LET cards == [i \in 1..Len(s.hands[0]) |-> << 0, s.hands[0][i] >>]
               \o [i \in 1..Len(s.hands[1]) |-> << 1, s.hands[1][i] >>]
      who == LowestTrumpScan(cards, s.trump_suit, -1, 0)[2]
  IN [s EXCEPT !.attacker = who, !.defender = 1 - who]

\* ApplyChanceAction() leaving the phase at kChance after the reveal.
ApplyChanceAction_StaysChance(s, outcome) ==
  IF s.cards_dealt < kCardsPerPlayer * kNumPlayers
  THEN [s EXCEPT !.hands[s.cards_dealt % kNumPlayers] = Append(@, outcome),
                 !.deck_pos = @ + 1,
                 !.cards_dealt = @ + 1]
  ELSE LET t == DecideFirstAttacker(
                  [s EXCEPT !.trump_card = outcome,
                            !.trump_suit = SuitOf(outcome)])
       IN [t EXCEPT !.round_starter = t.attacker]

\* DurakState::ApplyChanceAction
ApplyChanceAction(s, outcome) ==
  IF s.cards_dealt < kCardsPerPlayer * kNumPlayers
  THEN [s EXCEPT !.hands[s.cards_dealt % kNumPlayers] = Append(@, outcome),
                 !.deck_pos = @ + 1,
                 !.cards_dealt = @ + 1]
  ELSE LET t == DecideFirstAttacker(
                  [s EXCEPT !.trump_card = outcome,
                            !.trump_suit = SuitOf(outcome)])
       IN [t EXCEPT !.phase = kAttack, !.round_starter = t.attacker]

\* ApplyChanceAction() of the transfer variant dealing to player 1 first.
ApplyChanceActionT_PlayerOneFirst(s, outcome) ==
  IF s.cards_dealt < kCardsPerPlayer * kNumPlayers
  THEN [s EXCEPT !.hands[(s.cards_dealt + 1) % kNumPlayers] =
                   Append(@, outcome),
                 !.deck_pos = @ + 1,
                 !.cards_dealt = @ + 1]
  ELSE LET t == DecideFirstAttacker(
                  [s EXCEPT !.trump_card = Back(s.deck),
                            !.trump_suit = SuitOf(Back(s.deck))])
       IN [t EXCEPT !.phase = kAttack, !.round_starter = t.attacker]

\* DurakWithTransfersState::ApplyChanceAction
ApplyChanceActionT(s, outcome) ==
  IF s.cards_dealt < kCardsPerPlayer * kNumPlayers
  THEN [s EXCEPT !.hands[s.cards_dealt % kNumPlayers] = Append(@, outcome),
                 !.deck_pos = @ + 1,
                 !.cards_dealt = @ + 1]
  ELSE LET t == DecideFirstAttacker(
                  [s EXCEPT !.trump_card = Back(s.deck),
                            !.trump_suit = SuitOf(Back(s.deck))])
       IN [t EXCEPT !.phase = kAttack, !.round_starter = t.attacker]

\* DefenderTakesCards() after which the player who took the cards attacks.
DefenderTakesCards_SwapRoles(s) ==
  RefillHands([s EXCEPT !.hands[s.defender] = @ \o TableCards(s.table_cards),
                        !.table_cards = << >>,
                        !.attacker = s.defender,
                        !.defender = s.attacker,
                        !.phase = kAttack])

\* DefenderTakesCards() picking up the attacking cards only.
DefenderTakesCards_AttackOnly(s) ==
  RefillHands([s EXCEPT !.hands[s.defender] =
                          @ \o [i \in 1..Len(s.table_cards) |->
                                  s.table_cards[i][1]],
                        !.table_cards = << >>,
                        !.phase = kAttack])

\* DefenderTakesCards() without the call of RefillHands().
DefenderTakesCards_NoRefill(s) ==
  [s EXCEPT !.hands[s.defender] = @ \o TableCards(s.table_cards),
            !.table_cards = << >>,
            !.phase = kAttack]

DefenderTakesCards(s) ==
  RefillHands([s EXCEPT !.hands[s.defender] = @ \o TableCards(s.table_cards),
                        !.table_cards = << >>,
                        !.phase = kAttack])

\* AttackerFinishesAttack() handing the attack over to the defender.
AttackerFinishesAttack_SwapRoles(s) ==
  IF s.table_cards = << >> THEN s
  ELSE [s EXCEPT !.phase = kDefense,
                 !.attacker = s.defender,
                 !.defender = s.attacker]

\* DurakState::AttackerFinishesAttack

AttackerFinishesAttack(s) ==
  IF s.table_cards = << >> THEN s ELSE [s EXCEPT !.phase = kDefense]

\* DefenderFinishesDefense() refilling before the roles are swapped, so
\* that the old attacker draws first.
DefenderFinishesDefense_RefillFirst(s) ==
  LET uncovered == \E i \in 1..Len(s.table_cards) : s.table_cards[i][2] < 0
  IN IF uncovered THEN DefenderTakesCards(s)
     ELSE LET t == RefillHands(
                     [s EXCEPT !.discard = @ \o TableCards(s.table_cards),
                               !.table_cards = << >>])
          IN [t EXCEPT !.attacker = s.defender,
                       !.defender = s.attacker,
                       !.phase = kAttack]

DefenderFinishesDefense(s) ==
  LET uncovered == \E i \in 1..Len(s.table_cards) : s.table_cards[i][2] < 0
  IN IF uncovered THEN DefenderTakesCards(s)
     ELSE LET t == RefillHands(
                     [s EXCEPT !.discard = @ \o TableCards(s.table_cards),
                               !.table_cards = << >>,
                               !.attacker = s.defender,
                               !.defender = s.attacker])
          IN [t EXCEPT !.phase = kAttack]

\* DefenderTransfers() followed by a call of RefillHands().
DefenderTransfers_Refill(s) ==
  RefillHands([s EXCEPT !.attacker = s.defender,
                        !.defender = s.attacker,
                        !.phase = kAdditional])

\* DefenderTransfers() swapping without the temporary: the defender is set
\* from the attacker already overwritten.
DefenderTransfers_NoTemp(s) ==
  [s EXCEPT !.attacker = s.defender,
            !.defender = s.defender,
            !.phase = kAdditional]

DefenderTransfers(s) ==
  [s EXCEPT !.attacker = s.defender,
            !.defender = s.attacker,
            !.phase = kAdditional]

\* The card branch of DoApplyAction in which an attacking card is put in
\* front of the entries on the table.
PlayCard_TableFront(s, player, move) ==
  IF (s.phase = kAttack \/ s.phase = kAdditional) /\ player = s.attacker
  THEN [s EXCEPT !.hands[player] = Erase(@, move),
                 !.table_cards = << << move, -1 >> >> \o @,
                 !.phase = kAttack]
  ELSE IF s.phase = kDefense /\ player = s.defender
  THEN LET uncovered_index == UncoveredIndex(s.table_cards) IN
       IF uncovered_index >= 0
          /\ CanDefendCard(s, move, s.table_cards[uncovered_index + 1][1])
       THEN LET t == [s EXCEPT !.hands[player] = Erase(@, move),
                               !.table_cards[uncovered_index + 1][2] = move]
                all_covered ==
                  \A i \in 1..Len(t.table_cards) : ~(t.table_cards[i][2] < 0)
            IN IF all_covered THEN [t EXCEPT !.phase = kAdditional] ELSE t
       ELSE s
  ELSE s

\* The card branch of DoApplyAction in which an attacking card leaves the
\* phase as it is.
PlayCard_KeepPhase(s, player, move) ==
  IF (s.phase = kAttack \/ s.phase = kAdditional) /\ player = s.attacker
  THEN [s EXCEPT !.hands[player] = Erase(@, move),
                 !.table_cards = Append(@, << move, -1 >>)]
  ELSE IF s.phase = kDefense /\ player = s.defender
  THEN LET uncovered_index == UncoveredIndex(s.table_cards) IN
       IF uncovered_index >= 0
          /\ CanDefendCard(s, move, s.table_cards[uncovered_index + 1][1])
       THEN LET t == [s EXCEPT !.hands[player] = Erase(@, move),
                               !.table_cards[uncovered_index + 1][2] = move]
                all_covered ==
                  \A i \in 1..Len(t.table_cards) : ~(t.table_cards[i][2] < 0)
            IN IF all_covered THEN [t EXCEPT !.phase = kAdditional] ELSE t
       ELSE s
  ELSE s

\* The card branch of DoApplyAction, after the card was found in the hand
\* of the current player: the attacker lays it, or the defender covers the
\* earliest uncovered entry with it.
PlayCard(s, player, move) ==
  IF (s.phase = kAttack \/ s.phase = kAdditional) /\ player = s.attacker
  THEN [s EXCEPT !.hands[player] = Erase(@, move),
                 !.table_cards = Append(@, << move, -1 >>),
                 !.phase = kAttack]
  ELSE IF s.phase = kDefense /\ player = s.defender
  THEN LET uncovered_index == UncoveredIndex(s.table_cards) IN
       IF uncovered_index >= 0
          /\ CanDefendCard(s, move, s.table_cards[uncovered_index + 1][1])
       THEN LET t == [s EXCEPT !.hands[player] = Erase(@, move),
                               !.table_cards[uncovered_index + 1][2] = move]
                all_covered ==
                  \A i \in 1..Len(t.table_cards) : ~(t.table_cards[i][2] < 0)
            IN IF all_covered THEN [t EXCEPT !.phase = kAdditional] ELSE t
       ELSE s
  ELSE s

\* DoApplyAction testing game_over_ only before a card is played.
DoApplyAction_LateTerminalTest(s, move) ==
  IF IsChanceNode(s) THEN CheckGameOver(ApplyChanceAction(s, move))
  ELSE IF move >= kNumCards
    THEN CheckGameOver(
           IF move = kExtraActionTakeCards THEN DefenderTakesCards(s)
           ELSE IF move = kExtraActionFinishAttack
             THEN AttackerFinishesAttack(s)
           ELSE IF move = kExtraActionFinishDefense
             THEN DefenderFinishesDefense(s)
           ELSE s)
  ELSE IF s.game_over THEN s
  ELSE IF ~Contains(s.hands[CurrentPlayer(s)], move) THEN s
  ELSE CheckGameOver(PlayCard(s, CurrentPlayer(s), move))

\* DurakState::DoApplyAction
DoApplyAction(s, move) ==
  IF IsChanceNode(s) THEN CheckGameOver(ApplyChanceAction(s, move))
  ELSE IF s.game_over THEN s
  ELSE IF move >= kNumCards
    THEN CheckGameOver(
           IF move = kExtraActionTakeCards THEN DefenderTakesCards(s)
           ELSE IF move = kExtraActionFinishAttack
             THEN AttackerFinishesAttack(s)
           ELSE IF move = kExtraActionFinishDefense
             THEN DefenderFinishesDefense(s)
           ELSE s)
  ELSE IF ~Contains(s.hands[CurrentPlayer(s)], move) THEN s
  ELSE CheckGameOver(PlayCard(s, CurrentPlayer(s), move))

\* DurakWithTransfersState::DoApplyAction
DoApplyActionT(s0, move) ==
  LET s == [s0 EXCEPT !.last_action = move] IN
  IF IsChanceNode(s) THEN CheckGameOver(ApplyChanceActionT(s, move))
  ELSE IF s.game_over THEN s
  ELSE IF move = kExtraActionTransfer
    THEN CheckGameOver(DefenderTransfers(s))
  ELSE IF move = kExtraActionTakeCards
    THEN CheckGameOver(DefenderTakesCards(s))
  ELSE IF move = kExtraActionFinishAttack
    THEN CheckGameOver(AttackerFinishesAttack(s))
  ELSE IF move = kExtraActionFinishDefense
    THEN CheckGameOver(DefenderFinishesDefense(s))
  ELSE IF ~Contains(s.hands[CurrentPlayer(s)], move) THEN s
  ELSE CheckGameOver(PlayCard(s, CurrentPlayer(s), move))

\* State::ApplyAction, dispatched on the class of the state.
ApplyAction(s, move) ==
  IF s.transfers THEN DoApplyActionT(s, move) ELSE DoApplyAction(s, move)

\* ------------------------------------------------------------------------
\* Legal actions
\* ------------------------------------------------------------------------
\* The outcomes of ChanceOutcomes(), the legal actions of a chance node.
ChanceActions(s) ==
  [i \in 1..Len(ChanceOutcomes(s)) |-> ChanceOutcomes(s)[i][1]]

\* The cards of hand whose suit number is a rank on the table.
CardsOfTableRanks_Suit(s, hand) ==
  SelectSeq(hand, LAMBDA c : SuitOf(c) \in RanksOnTable(s.table_cards))

\* The cards of hand whose rank is on the table.
CardsOfTableRanks(s, hand) ==
  SelectSeq(hand, LAMBDA c : RankOf(c) \in RanksOnTable(s.table_cards))

\* CoveringCards without the CanDefendCard test.
CoveringCards_WholeHand(s, hand) ==
  LET earliest_uncovered == UncoveredIndex(s.table_cards) IN
  IF earliest_uncovered >= 0 THEN hand ELSE << >>

\* The cards of hand that cover the attacking card of the earliest
\* uncovered entry.
CoveringCards(s, hand) ==
  LET earliest_uncovered == UncoveredIndex(s.table_cards) IN
  IF earliest_uncovered >= 0
  THEN SelectSeq(hand, LAMBDA c :
         CanDefendCard(s, c, s.table_cards[earliest_uncovered + 1][1]))
  ELSE << >>

\* DurakState::LegalActions
LegalActions(s) ==
  LET player == CurrentPlayer(s) IN
  IF s.game_over THEN << >>
  ELSE IF IsChanceNode(s) THEN ChanceActions(s)
  ELSE LET hand == s.hands[player] IN
    IF s.phase = kAttack \/ s.phase = kAdditional
    THEN (IF player = s.attacker
          THEN Sort((IF s.table_cards = << >> THEN hand
                     ELSE CardsOfTableRanks(s, hand))
                    \o (IF s.table_cards # << >>
                        THEN << kExtraActionFinishAttack >> ELSE << >>))
          ELSE << >>)
    ELSE IF s.phase = kDefense
    THEN (IF player = s.defender
          THEN LET any_uncovered ==
                     \E i \in 1..Len(s.table_cards) : s.table_cards[i][2] < 0
               IN Sort(IF ~any_uncovered THEN << kExtraActionFinishDefense >>
                       ELSE << kExtraActionTakeCards >>
                            \o CoveringCards(s, hand))
          ELSE << >>)
    ELSE << >>

\* DurakWithTransfersState::LegalActions without the test of last_action_
\* for FinishAttack.
LegalActionsT_FinishAnytime(s) ==
  LET player == CurrentPlayer(s) IN
  IF s.game_over THEN << >>
  ELSE IF IsChanceNode(s) THEN ChanceActions(s)
  ELSE LET hand == s.hands[player] IN
    IF (s.phase = kAttack \/ s.phase = kAdditional) /\ player = s.attacker
    THEN Sort((IF s.table_cards = << >> THEN hand
               ELSE IF Len(s.table_cards) < kCardsPerPlayer
                       /\ s.hands[s.defender] # << >>
                 THEN CardsOfTableRanks(s, hand)
               ELSE << >>)
              \o (IF s.table_cards # << >>
                  THEN << kExtraActionFinishAttack >> ELSE << >>))
    ELSE IF s.phase = kDefense /\ player = s.defender
    THEN LET any_uncovered ==
               \E i \in 1..Len(s.table_cards) : s.table_cards[i][2] < 0
             any_covered ==
               \E i \in 1..Len(s.table_cards) : ~(s.table_cards[i][2] < 0)
             ranks_on_table ==
               { RankOf(s.table_cards[i][1]) : i \in 1..Len(s.table_cards) }
         IN Sort(IF ~any_uncovered THEN << kExtraActionFinishDefense >>
                 ELSE << kExtraActionTakeCards >>
                      \o (IF any_uncovered /\ ~any_covered
                             /\ \E i \in 1..Len(hand) :
                                  RankOf(hand[i]) \in ranks_on_table
                          THEN << kExtraActionTransfer >> ELSE << >>)
                      \o CoveringCards(s, hand))
    ELSE << >>

\* DurakWithTransfersState::LegalActions without the test that no entry is
\* covered yet.
LegalActionsT_CoveredToo(s) ==
  LET player == CurrentPlayer(s) IN
  IF s.game_over THEN << >>
  ELSE IF IsChanceNode(s) THEN ChanceActions(s)
  ELSE LET hand == s.hands[player] IN
    IF (s.phase = kAttack \/ s.phase = kAdditional) /\ player = s.attacker
    THEN Sort((IF s.table_cards = << >> THEN hand
               ELSE IF Len(s.table_cards) < kCardsPerPlayer
                       /\ s.hands[s.defender] # << >>
                 THEN CardsOfTableRanks(s, hand)
               ELSE << >>)
              \o (IF s.table_cards # << >>
                     /\ s.last_action # kExtraActionTransfer
                  THEN << kExtraActionFinishAttack >> ELSE << >>))
    ELSE IF s.phase = kDefense /\ player = s.defender
    THEN LET any_uncovered ==
               \E i \in 1..Len(s.table_cards) : s.table_cards[i][2] < 0
             ranks_on_table ==
               { RankOf(s.table_cards[i][1]) : i \in 1..Len(s.table_cards) }
         IN Sort(IF ~any_uncovered THEN << kExtraActionFinishDefense >>
                 ELSE << kExtraActionTakeCards >>
                      \o (IF any_uncovered
                             /\ \E i \in 1..Len(hand) :
                                  RankOf(hand[i]) \in ranks_on_table
                          THEN << kExtraActionTransfer >> ELSE << >>)
                      \o CoveringCards(s, hand))
    ELSE << >>

\* DurakWithTransfersState::LegalActions
LegalActionsT(s) ==
  LET player == CurrentPlayer(s) IN
  IF s.game_over THEN << >>
  ELSE IF IsChanceNode(s) THEN ChanceActions(s)
  ELSE LET hand == s.hands[player] IN
    IF (s.phase = kAttack \/ s.phase = kAdditional) /\ player = s.attacker
    THEN Sort((IF s.table_cards = << >> THEN hand
               ELSE IF Len(s.table_cards) < kCardsPerPlayer
                       /\ s.hands[s.defender] # << >>
                 THEN CardsOfTableRanks(s, hand)
               ELSE << >>)
              \o (IF s.table_cards # << >>
                     /\ s.last_action # kExtraActionTransfer
                  THEN << kExtraActionFinishAttack >> ELSE << >>))
    ELSE IF s.phase = kDefense /\ player = s.defender
    THEN LET any_uncovered ==
               \E i \in 1..Len(s.table_cards) : s.table_cards[i][2] < 0
             any_covered ==
               \E i \in 1..Len(s.table_cards) : ~(s.table_cards[i][2] < 0)
             ranks_on_table ==
               { RankOf(s.table_cards[i][1]) : i \in 1..Len(s.table_cards) }
         IN Sort(IF ~any_uncovered THEN << kExtraActionFinishDefense >>
                 ELSE << kExtraActionTakeCards >>
                      \o (IF any_uncovered /\ ~any_covered
                             /\ \E i \in 1..Len(hand) :
                                  RankOf(hand[i]) \in ranks_on_table
                          THEN << kExtraActionTransfer >> ELSE << >>)
                      \o CoveringCards(s, hand))
    ELSE << >>

\* State::LegalActions, dispatched on the class of the state.
Legal(s) == IF s.transfers THEN LegalActionsT(s) ELSE LegalActions(s)

\* ------------------------------------------------------------------------
\* The state machine
\* ------------------------------------------------------------------------
VARIABLES
  transfers,      \* TRUE: DurakWithTransfersState, FALSE: DurakState
  deck, hands, table_cards, discard, trump_suit, trump_card, cards_dealt,
  deck_pos, attacker, defender, phase, round_starter, last_action, game_over,
  history,        \* State::history_: the actions applied since construction
  game,           \* the recorded game of Games the behaviour started from
  pos,            \* index of the next action of the recorded line, 0 once
                  \* the behaviour has left the line
  off             \* number of actions taken away from the line

vars ==
  << transfers, deck, hands, table_cards, discard, trump_suit, trump_card,
     cards_dealt, deck_pos, attacker, defender, phase, round_starter,
     last_action, game_over, history, game, pos, off >>

\* The game state object as a record.
Cur ==
  [ transfers     |-> transfers,
    deck          |-> deck,
    hands         |-> hands,
    table_cards   |-> table_cards,
    discard       |-> discard,
    trump_suit    |-> trump_suit,
    trump_card    |-> trump_card,
    cards_dealt   |-> cards_dealt,
    deck_pos      |-> deck_pos,
    attacker      |-> attacker,
    defender      |-> defender,
    phase         |-> phase,
    round_starter |-> round_starter,
    last_action   |-> last_action,
    game_over     |-> game_over ]

\* The game state object becomes s.
Becomes(s) ==
  /\ transfers' = s.transfers
  /\ deck' = s.deck
  /\ hands' = s.hands
  /\ table_cards' = s.table_cards
  /\ discard' = s.discard
  /\ trump_suit' = s.trump_suit
  /\ trump_card' = s.trump_card
  /\ cards_dealt' = s.cards_dealt
  /\ deck_pos' = s.deck_pos
  /\ attacker' = s.attacker
  /\ defender' = s.defender
  /\ phase' = s.phase
  /\ round_starter' = s.round_starter
  /\ last_action' = s.last_action
  /\ game_over' = s.game_over

\* The game state object is s.
StateIs(s) ==
  /\ transfers = s.transfers
  /\ deck = s.deck
  /\ hands = s.hands
  /\ table_cards = s.table_cards
  /\ discard = s.discard
  /\ trump_suit = s.trump_suit
  /\ trump_card = s.trump_card
  /\ cards_dealt = s.cards_dealt
  /\ deck_pos = s.deck_pos
  /\ attacker = s.attacker
  /\ defender = s.defender
  /\ phase = s.phase
  /\ round_starter = s.round_starter
  /\ last_action = s.last_action
  /\ game_over = s.game_over

\* A new initial state of one of the two games, on the deck of a recorded
\* game.
Init ==
  /\ game \in ExploredGames
  /\ StateIs(NewInitialState(Games[game].deck, Games[game].transfers))
  /\ history = << >>
  /\ pos = 1
  /\ off = 0

\* The legal actions of the current state and the cards among them.
LegalNow == { Legal(Cur)[i] : i \in 1..Len(Legal(Cur)) }

Cards == 0..(kNumCards - 1)

\* The caller applies move, one of the legal actions.  Chance outcomes are
\* forced; a player action either is the next action of the recorded line
\* or counts against MaxOff.
Apply(move) ==
  /\ Becomes(ApplyAction(Cur, move))
  /\ history' = Append(history, move)
  /\ game' = game
  /\ IF IsChanceNode(Cur) THEN pos' = pos /\ off' = off
     ELSE IF /\ pos # 0
             /\ pos <= Len(Games[game].line)
             /\ move = Games[game].line[pos]
       THEN pos' = pos + 1 /\ off' = off
     ELSE off < MaxOff /\ pos' = 0 /\ off' = off + 1

DealCard ==
  /\ phase = kChance
  /\ cards_dealt < kCardsPerPlayer * kNumPlayers
  /\ \E move \in LegalNow \cap Cards : Apply(move)

RevealTrump ==
  /\ phase = kChance
  /\ ~(cards_dealt < kCardsPerPlayer * kNumPlayers)
  /\ \E move \in LegalNow \cap Cards : Apply(move)

AttackerPlaysCard ==
  /\ phase = kAttack \/ phase = kAdditional
  /\ \E move \in LegalNow \cap Cards : Apply(move)

DefenderPlaysCard ==
  /\ phase = kDefense
  /\ \E move \in LegalNow \cap Cards : Apply(move)

TakeCards ==
  /\ kExtraActionTakeCards \in LegalNow
  /\ Apply(kExtraActionTakeCards)

FinishAttack ==
  /\ kExtraActionFinishAttack \in LegalNow
  /\ Apply(kExtraActionFinishAttack)

FinishDefense ==
  /\ kExtraActionFinishDefense \in LegalNow
  /\ Apply(kExtraActionFinishDefense)

Transfer ==
  /\ kExtraActionTransfer \in LegalNow
  /\ Apply(kExtraActionTransfer)

Next ==
  \/ DealCard
  \/ RevealTrump
  \/ AttackerPlaysCard
  \/ DefenderPlaysCard
  \/ TakeCards
  \/ FinishAttack
  \/ FinishDefense
  \/ Transfer

Spec == Init /\ [][Next]_vars

\* The caller applies a player action that LegalActions() does not list to
\* a state where a player is to move; ApplyAction() itself does not look
\* at the legal set.  Such an action ends the exploration of a behaviour.
NumDistinctActions == IF transfers THEN kNumCards + 4 ELSE kNumCards + 3

IllegalAction ==
  /\ ~IsChanceNode(Cur) /\ ~game_over
  /\ off < MaxOff
  /\ \E move \in (0..(NumDistinctActions - 1)) \ LegalNow :
       /\ Becomes(ApplyAction(Cur, move))
       /\ history' = Append(history, move)
       /\ game' = game /\ pos' = 0 /\ off' = MaxOff

NextAnyAction == Next \/ IllegalAction

\* Legal play, and callers that may apply an action that is not legal.
SpecAnyAction == Init /\ [][NextAnyAction]_vars

\* The caller applies a player action to a finished game, once.
ActionAfterEnd ==
  /\ game_over
  /\ pos >= 0
  /\ \E move \in 0..(NumDistinctActions - 1) :
       /\ Becomes(ApplyAction(Cur, move))
       /\ history' = Append(history, move)
       /\ game' = game /\ pos' = -1 /\ off' = off

NextAfterEnd == Next \/ ActionAfterEnd

SpecAfterEnd == Init /\ [][NextAfterEnd]_vars

\* A new initial state of the transfer variant created with an init_deck
\* parameter that is not a permutation of the 36 cards; no recorded line
\* belongs to it.
InitFromDeckString ==
  /\ game = 0
  /\ \E numbers \in InitDecks : \E c \in UninitializedInt(numbers) :
       StateIs(NewInitialState(ParseDeck(numbers, c), TRUE))
  /\ history = << >>
  /\ pos = 0
  /\ off = 0

\* A new initial state on the deck of a long game; its line is followed
\* with no action away from it.
InitLongGame ==
  /\ game \in LongGames
  /\ StateIs(NewInitialState(Games[game].deck, Games[game].transfers))
  /\ history = << >>
  /\ pos = 1
  /\ off = MaxOff

\* Legal play along the lines of the long games.
SpecLongGame == InitLongGame /\ [][Next]_vars

\* Legal play of the recorded games and of games on a supplied init_deck.
SpecInitDeck == (Init \/ InitFromDeckString) /\ [][Next]_vars

\* ------------------------------------------------------------------------
\* Text form and reconstruction from the action history
\* ------------------------------------------------------------------------
rank_symbols == << "6", "7", "8", "9", "10", "J", "Q", "K", "A" >>

\* The suit signs of the source, by name.
suit_symbols == << "spades", "clubs", "diamonds", "hearts" >>

CardToString(card) ==
  IF card < 0 \/ card >= kNumCards THEN << "None" >>
  ELSE << rank_symbols[RankOf(card) + 1], suit_symbols[SuitOf(card) + 1] >>

\* DurakState::ToString and DurakWithTransfersState::ToString, which print
\* the same fields: the first line, the two hands, the table, the size of
\* the discard pile.
StateToString(s) ==
  << << s.phase, s.attacker, s.defender, s.deck_pos, Len(s.deck),
        s.trump_suit,
        IF s.trump_card < 0 THEN << "None" >> ELSE CardToString(s.trump_card),
        s.game_over >>,
     [p \in 0..(kNumPlayers - 1) |->
        [i \in 1..Len(s.hands[p]) |-> CardToString(s.hands[p][i])]],
     [i \in 1..Len(s.table_cards) |->
        << CardToString(s.table_cards[i][1]),
           IF s.table_cards[i][2] < 0 THEN << "?" >>
           ELSE CardToString(s.table_cards[i][2]) >>],
     Len(s.discard) >>

\* The serialized state is its action history; deserialization applies the
\* actions one by one to a new initial state.
RECURSIVE Replay(_, _)
Replay(s, actions) ==
  IF actions = << >> THEN s
  ELSE Replay(ApplyAction(s, Head(actions)), Tail(actions))

\* The decks a new initial state of the serialized game can have.  The
\* transfer variant builds its deck from the game parameters (init_deck or
\* rng_seed), which are serialized with the game, so it gets the deck of the
\* original state; the base game shuffles with a seed from
\* std::random_device, so any deck can come up: the original deck and one
\* other deck are tried.
NewDecks(s) ==
  IF s.transfers THEN { s.deck }
  ELSE { s.deck, IF s.deck = Deck2 THEN Deck1 ELSE Deck2 }

\* The states deserialization can produce for state s with the history h.
Deserialized(s, h) ==
  { Replay(NewInitialState(d, s.transfers), h) : d \in NewDecks(s) }

\* ------------------------------------------------------------------------
\* Properties
\* ------------------------------------------------------------------------
\* The cards of the game wherever they are: the unread part of the deck,
\* the two hands, the table and the discard pile.
CardsInPlay ==
  SubSeq(deck, deck_pos + 1, Len(deck)) \o hands[0] \o hands[1]
    \o TableCards(table_cards) \o discard

\* C1: in every reachable state of both variants the unread deck, the two
\* hands, the attacking and defending cards of the table and the discard
\* pile together hold each of the 36 cards exactly once.
C1_CardConservation ==
  /\ Len(CardsInPlay) = kNumCards
  /\ \A c \in Cards :
       Cardinality({ i \in 1..Len(CardsInPlay) : CardsInPlay[i] = c }) = 1

\* A state with cards in every place: deck partly drawn after the deal, a
\* covered and an uncovered entry on the table, a non-empty discard pile.
C1_Witness ==
  /\ deck_pos > kCardsPerPlayer * kNumPlayers /\ deck_pos < kNumCards
  /\ discard # << >>
  /\ \E i \in 1..Len(table_cards) : table_cards[i][2] >= 0
  /\ \E i \in 1..Len(table_cards) : table_cards[i][2] < 0
  /\ hands[0] # << >> /\ hands[1] # << >>

\* C2: a state that is not terminal has a legal action, a terminal state
\* has none, and right after a Transfer the new attacker has a card that is
\* legal to play.
C2_NoDeadlock ==
  /\ ~IsTerminal(Cur) => Legal(Cur) # << >>
  /\ IsTerminal(Cur) => Legal(Cur) = << >>
  /\ (transfers /\ last_action = kExtraActionTransfer) =>
       \E i \in 1..Len(Legal(Cur)) :
         Legal(Cur)[i] < kNumCards /\ Contains(hands[attacker], Legal(Cur)[i])

\* The state right after a Transfer.
C2_Witness ==
  /\ transfers
  /\ last_action = kExtraActionTransfer
  /\ phase = kAdditional
  /\ ~game_over

\* C3: attacker and defender are the two distinct players 0 and 1.
C3_RoleInvariant ==
  /\ attacker \in 0..(kNumPlayers - 1)
  /\ defender \in 0..(kNumPlayers - 1)
  /\ attacker = 1 - defender

\* The roles have been swapped since the first attacker was decided.
C3_Witness ==
  /\ phase # kChance
  /\ attacker # round_starter
  /\ defender = round_starter

\* C4: after every applied action the state is terminal exactly if the
\* deck is exhausted and a hand is empty.
C4_TerminalIffExhausted ==
  cards_dealt > 0 =>
    (game_over <=>
       (deck_pos = kNumCards /\ (hands[0] = << >> \/ hands[1] = << >>)))

\* The general rule of C5: Returns() is (0,0) in a state that is not
\* terminal; in a terminal state where exactly one player holds cards that
\* player gets -1 and the other +1; in a terminal state where nobody holds
\* cards and the deck is exhausted the attacker gets +1 and the defender -1.
ScoringRule ==
  /\ ~game_over => Returns(Cur) = << 0, 0 >>
  /\ \A p \in 0..1 :
       (game_over /\ hands[p] # << >> /\ hands[1 - p] = << >>) =>
         (Returns(Cur)[p + 1] = -1 /\ Returns(Cur)[(1 - p) + 1] = 1)
  /\ (game_over /\ hands[0] = << >> /\ hands[1] = << >>
        /\ deck_pos = kNumCards) =>
       (Returns(Cur)[attacker + 1] = 1 /\ Returns(Cur)[defender + 1] = -1)

\* The terminal state of the claim's example (Scenario E): deck exhausted,
\* hand 0 empty, hand 1 not empty.
ScenarioE ==
  /\ game_over
  /\ deck_pos = kNumCards
  /\ hands[0] = << >>
  /\ hands[1] # << >>

\* C5 as stated: the scoring rule, and Returns() = (-1,+1) in the terminal
\* state with the deck exhausted, hand 0 empty and hand 1 not empty.
C5_ScoringAsStated ==
  /\ ScoringRule
  /\ ScenarioE => Returns(Cur) = << -1, 1 >>

\* C5 amended: the scoring rule, and Returns() = (+1,-1) in the terminal
\* state with the deck exhausted, hand 0 empty and hand 1 not empty: player
\* 1, who holds the cards, loses.
C5_Scoring ==
  /\ ScoringRule
  /\ ScenarioE => Returns(Cur) = << 1, -1 >>

\* The terminal state of the example is reached.
C5_Witness == ScenarioE /\ Returns(Cur) = << 1, -1 >>

\* A terminal state in which neither player holds a card: the third case
\* of the scoring rule.
BothHandsEmptyAtEnd ==
  /\ game_over
  /\ hands[0] = << >> /\ hands[1] = << >>
  /\ deck_pos = kNumCards

\* C6: in every terminal state Returns() is (+1,-1) or (-1,+1).
C6_DecidedOutcome ==
  game_over => Returns(Cur) \in { << 1, -1 >>, << -1, 1 >> }

\* A terminal state of the transfer variant with the loser still holding
\* cards while cards lie on the table.
C6_Witness ==
  /\ game_over
  /\ transfers
  /\ \E p \in 0..1 : hands[p] # << >> /\ hands[1 - p] = << >>

\* C7: a state in the Dealing phase has exactly one chance outcome, of
\* probability 1: the card at the deck cursor while fewer than 12 cards are
\* dealt, the last card of the deck once 12 are dealt, the trump then being
\* still unknown.
C7_ForcedChanceOutcome ==
  phase = kChance =>
    /\ Len(ChanceOutcomes(Cur)) = 1
    /\ ChanceOutcomes(Cur)[1][2] = 1
    /\ Legal(Cur) = << ChanceOutcomes(Cur)[1][1] >>
    /\ cards_dealt <= kCardsPerPlayer * kNumPlayers
    /\ trump_card < 0
    /\ cards_dealt < kCardsPerPlayer * kNumPlayers =>
         ChanceOutcomes(Cur)[1][1] = deck[deck_pos + 1]
    /\ cards_dealt = kCardsPerPlayer * kNumPlayers =>
         ChanceOutcomes(Cur)[1][1] = deck[kNumCards]

\* The chance node of the trump reveal.
C7_Witness ==
  /\ phase = kChance
  /\ cards_dealt = kCardsPerPlayer * kNumPlayers
  /\ ChanceOutcomes(Cur) = << << deck[kNumCards], 1 >> >>

\* C8: the deal alternates between the players, player 0 first: while
\* dealing, hand p holds the deck cards at positions p, p + 2, ... below the
\* cursor, in that order; after the 12 deal steps each hand holds 6 cards,
\* deck_pos = cards_dealt = 12 and the phase is still Dealing.
C8_DealingOrder ==
  /\ phase = kChance =>
       /\ deck_pos = cards_dealt
       /\ \A p \in 0..1 :
            hands[p] = [i \in 1..((cards_dealt + 1 - p) \div 2) |->
                          deck[2 * (i - 1) + p + 1]]
  /\ (trump_card < 0 /\ cards_dealt = 12) =>
       /\ phase = kChance
       /\ deck_pos = 12
       /\ hands[0] = << deck[1], deck[3], deck[5], deck[7], deck[9], deck[11] >>
       /\ hands[1] = << deck[2], deck[4], deck[6], deck[8], deck[10], deck[12] >>

\* The state after the 12 deal steps.
C8_Witness ==
  /\ cards_dealt = 12
  /\ trump_card < 0
  /\ Len(hands[0]) = 6 /\ Len(hands[1]) = 6

\* The step of the 13th chance action, the trump reveal.
RevealStep == phase = kChance /\ cards_dealt = 12 /\ phase' # kChance

\* C9: the phase is Dealing as long as the trump is not revealed, and the
\* 13th chance action leads to Phase=Attack with an empty table, the deck's
\* last card as trump card, its suit as trump suit, and deck_pos still 12.
C9_TrumpReveal ==
  [][ /\ trump_card < 0 => phase = kChance
      /\ trump_card' < 0 => phase' = kChance
      /\ (phase = kChance /\ cards_dealt = 12) =>
           /\ phase' = kAttack
           /\ table_cards' = << >>
           /\ trump_card' = deck[kNumCards]
           /\ trump_suit' = SuitOf(deck[kNumCards])
           /\ deck_pos' = 12
           /\ cards_dealt' = 12
           /\ deck' = deck ]_vars

\* The state the trump reveal leads to.
C9_Witness ==
  /\ phase = kAttack
  /\ trump_card = deck[kNumCards]
  /\ deck_pos = 12
  /\ table_cards = << >>
  /\ discard = << >>

\* The trump cards of player p's hand.
TrumpsOf(p) ==
  { hands[p][i] : i \in { j \in 1..Len(hands[p]) :
                            SuitOf(hands[p][j]) = trump_suit } }

\* Player p holds the trump card of the lowest rank among both hands.
HoldsLowestTrump(p) ==
  \E c \in TrumpsOf(p) :
    \A d \in TrumpsOf(0) \cup TrumpsOf(1) : RankOf(c) <= RankOf(d)

\* C10 as stated: right after the trump reveal the attacker holds the
\* trump card of the lowest rank among both hands and the other player is
\* the defender.
C10_FirstAttackerHoldsLowestTrump ==
  [][ RevealStep => (HoldsLowestTrump(attacker) /\ defender = 1 - attacker)'
    ]_vars

\* C10 amended: if a hand holds a trump card right after the trump reveal,
\* the attacker holds the trump card of the lowest rank among both hands;
\* the other player is the defender.
C10_FirstAttackerAmended ==
  [][ RevealStep =>
        /\ (TrumpsOf(0) \cup TrumpsOf(1) # {})' => HoldsLowestTrump(attacker)'
        /\ defender' = 1 - attacker' ]_vars

\* Right after the reveal player 1 attacks, holding the lowest trump.
C10_Witness ==
  /\ phase = kAttack
  /\ deck_pos = 12
  /\ table_cards = << >>
  /\ attacker = 1
  /\ HoldsLowestTrump(1)

\* ------------------------------------------------------------------------
\* C11  Covering predicate.  In every reachable state, with that state's
\* trump suit (all four suits occur, and -1 before the reveal), and for
\* every pair of cards: CanDefendCard(defense, attack) is true exactly
\* when the cards share a suit and the defence has the higher rank, or the
\* defence is a trump and the attack is not.  Hence no card defends
\* itself, every trump defends every non-trump, and among non-trump cards
\* of one suit only a strictly higher rank defends.
\* ------------------------------------------------------------------------
IsTrump(card) == SuitOf(card) = trump_suit

Covers(defense_card, attack_card) ==
  \/ /\ SuitOf(defense_card) = SuitOf(attack_card)
     /\ RankOf(defense_card) > RankOf(attack_card)
  \/ IsTrump(defense_card) /\ ~IsTrump(attack_card)

C11_CoveringPredicate ==
  /\ \A d \in Cards : \A a \in Cards :
       CanDefendCard(Cur, d, a) <=> Covers(d, a)
  /\ \A c \in Cards : ~CanDefendCard(Cur, c, c)
  /\ \A d \in Cards : \A a \in Cards :
       IsTrump(d) /\ ~IsTrump(a) => CanDefendCard(Cur, d, a)
  /\ \A d \in Cards : \A a \in Cards :
       SuitOf(d) = SuitOf(a) /\ ~IsTrump(d) =>
         (CanDefendCard(Cur, d, a) <=> RankOf(d) > RankOf(a))

\* The defender has covered a non-trump attack with a trump of lower rank,
\* and a trump attack with a higher trump, on one table.
C11_Witness ==
  /\ \E i \in 1..Len(table_cards) :
       /\ table_cards[i][2] >= 0
       /\ IsTrump(table_cards[i][2]) /\ ~IsTrump(table_cards[i][1])
       /\ RankOf(table_cards[i][2]) < RankOf(table_cards[i][1])
  /\ \E i \in 1..Len(table_cards) :
       /\ table_cards[i][2] >= 0
       /\ IsTrump(table_cards[i][2]) /\ IsTrump(table_cards[i][1])

\* ------------------------------------------------------------------------
\* C12  The attacker's legal set, both variants, in a state where the
\* attacker is to move (phase Attack or Additional, game not over).
\* ------------------------------------------------------------------------
\* The cards of player p's hand.
HandSet(p) == { hands[p][i] : i \in 1..Len(hands[p]) }

AttackerToMove == ~game_over /\ (phase = kAttack \/ phase = kAdditional)

\* The cards of the attacker's hand whose rank is the rank of some
\* attacking or defending card on the table.
AttackerCardsOfTableRank ==
  { c \in HandSet(attacker) :
      \E i \in 1..Len(table_cards) :
        \/ RankOf(c) = RankOf(table_cards[i][1])
        \/ table_cards[i][2] >= 0 /\ RankOf(c) = RankOf(table_cards[i][2]) }

\* On an empty table exactly the hand is legal; on a non-empty table no
\* card of a rank that is not on the table is legal.
AttackerCardRule ==
  AttackerToMove =>
    IF table_cards = << >> THEN LegalNow = HandSet(attacker)
    ELSE LegalNow \cap Cards \subseteq AttackerCardsOfTableRank

\* The attacker lays c1 on an empty table and the game goes on.
OpeningStep ==
  /\ AttackerToMove /\ table_cards = << >>
  /\ Len(table_cards') = 1
  /\ ~game_over'

\* After the opening step: every remaining hand card of rank(c1) is legal
\* and no card of another rank.
OpeningRule ==
  OpeningStep =>
    LegalNow' \cap Cards =
      { c \in HandSet(attacker)' :
          RankOf(c) = RankOf(table_cards'[1][1]) }

\* C12 as stated: the card rule, and FinishAttack is legal whenever the
\* table is non-empty, in particular after the opening step.
C12_AttackerLegalSetAsStated ==
  /\ [](AttackerCardRule
        /\ (AttackerToMove /\ table_cards # << >> =>
              kExtraActionFinishAttack \in LegalNow))
  /\ [][OpeningRule
        /\ (OpeningStep => kExtraActionFinishAttack \in LegalNow')]_vars

\* The previous action was a Transfer (transfer variant only).
JustTransferred == transfers /\ last_action = kExtraActionTransfer

\* C12 amended: the card rule, and on a non-empty table FinishAttack is
\* legal except in the transfer variant right after a Transfer, where it
\* is not legal; after the opening step it is legal.
C12_AttackerLegalSet ==
  /\ [](AttackerCardRule
        /\ (AttackerToMove /\ table_cards # << >> =>
              (kExtraActionFinishAttack \in LegalNow <=> ~JustTransferred)))
  /\ [][OpeningRule
        /\ (OpeningStep => kExtraActionFinishAttack \in LegalNow')]_vars

\* Right after a Transfer the new attacker holds a card of a rank on the
\* table, which is legal, and a card of another rank, which is not.
C12_Witness ==
  /\ AttackerToMove /\ JustTransferred
  /\ table_cards # << >>
  /\ LegalNow \cap Cards # {}
  /\ HandSet(attacker) \ AttackerCardsOfTableRank # {}
  /\ ~(kExtraActionFinishAttack \in LegalNow)

\* ------------------------------------------------------------------------
\* C13  Table capacity in the transfer variant.
\* ------------------------------------------------------------------------
Min(a, b) == IF a < b THEN a ELSE b

\* capacity = min(6, defender's hand size)
Capacity == Min(kCardsPerPlayer, Len(hands[defender]))

\* C13: in the transfer variant, when the attacker is to move and the
\* table is non-empty, a card is legal only if the table holds fewer
\* entries than Capacity.
C13_ExplicitCapacity ==
  (transfers /\ AttackerToMove /\ table_cards # << >>
     /\ LegalNow \cap Cards # {})
    => Len(table_cards) < Capacity

\* ------------------------------------------------------------------------
\* C14  In both variants the number of uncovered table entries never
\* exceeds the number of cards in the defender's hand.
\* ------------------------------------------------------------------------
\* The number of uncovered table entries.
NumUncovered ==
  Cardinality({ i \in 1..Len(table_cards) : table_cards[i][2] < 0 })

C14_UncoveredWithinDefenderHand == NumUncovered <= Len(hands[defender])

\* ------------------------------------------------------------------------
\* C15  In the base game the table never holds more than 6 entries.
\* ------------------------------------------------------------------------
C15_BaseTableWithinSix == ~transfers => Len(table_cards) <= kCardsPerPlayer

\* ------------------------------------------------------------------------
\* C16  The defender's legal set, both variants, in a state where the
\* defender is to move (phase Defense, game not over).
\* ------------------------------------------------------------------------
DefenderToMove == ~game_over /\ phase = kDefense

Uncovered == { i \in 1..Len(table_cards) : table_cards[i][2] < 0 }

\* The attacking card of the earliest uncovered entry.
EarliestUncoveredAttack ==
  table_cards[CHOOSE i \in Uncovered : \A j \in Uncovered : i <= j][1]

\* C16: with no uncovered entry the legal set is exactly {FinishDefense};
\* otherwise TakeCards is legal, FinishDefense is not, and a card is legal
\* if and only if it is in the defender's hand and CanDefendCard holds for
\* it against the attacking card of the earliest uncovered entry.
C16_DefenderLegalSet ==
  DefenderToMove =>
    IF Uncovered = {} THEN LegalNow = { kExtraActionFinishDefense }
    ELSE /\ kExtraActionTakeCards \in LegalNow
         /\ ~(kExtraActionFinishDefense \in LegalNow)
         /\ \A c \in Cards :
              c \in LegalNow <=>
                /\ c \in HandSet(defender)
                /\ CanDefendCard(Cur, c, EarliestUncoveredAttack)

\* Two entries are uncovered, and the defender holds a card that covers
\* the later one but not the earliest: it is not legal.
C16_Witness ==
  /\ DefenderToMove
  /\ Cardinality(Uncovered) >= 2
  /\ LegalNow \cap Cards # {}
  /\ \E c \in HandSet(defender) : \E i \in Uncovered :
       /\ CanDefendCard(Cur, c, table_cards[i][1])
       /\ ~CanDefendCard(Cur, c, EarliestUncoveredAttack)
       /\ ~(c \in LegalNow)

\* ------------------------------------------------------------------------
\* C17  Scenario C: the defender is to move, exactly one entry is
\* uncovered and no card of the defender's hand covers it.
\* ------------------------------------------------------------------------
ScenarioC ==
  /\ DefenderToMove
  /\ Cardinality(Uncovered) = 1
  /\ \A c \in HandSet(defender) :
       ~CanDefendCard(Cur, c, EarliestUncoveredAttack)

\* C17 as stated: in Scenario C the legal set is exactly {TakeCards}, in
\* both variants.
C17_OnlyTakeCardsAsStated ==
  ScenarioC => LegalNow = { kExtraActionTakeCards }

\* Transfer variant: no entry is covered and the defender holds a card of
\* the rank of some attacking card on the table.
CanPassOn ==
  /\ transfers
  /\ \A i \in 1..Len(table_cards) : table_cards[i][2] < 0
  /\ \E c \in HandSet(defender) : \E i \in 1..Len(table_cards) :
       RankOf(c) = RankOf(table_cards[i][1])

\* C17 amended: in Scenario C the legal set is exactly {TakeCards} in the
\* base game; in the transfer variant it is {TakeCards}, together with
\* Transfer when no entry is covered and the defender holds a card of the
\* rank of an attacking card.
C17_OnlyTakeCards ==
  ScenarioC =>
    LegalNow = { kExtraActionTakeCards }
                 \cup (IF CanPassOn THEN { kExtraActionTransfer } ELSE {})

\* Scenario C in the transfer variant with a card of the attacking rank in
\* the defender's hand: TakeCards and Transfer are legal.
C17_Witness ==
  /\ ScenarioC
  /\ transfers
  /\ LegalNow = { kExtraActionTakeCards, kExtraActionTransfer }

\* Scenario C in the base game.
ScenarioCBase == ScenarioC /\ ~transfers /\ LegalNow = { kExtraActionTakeCards }

\* ------------------------------------------------------------------------
\* C18  TakeCards in phase Defense.
\* ------------------------------------------------------------------------
\* Every card on the table, entry by entry, the attacking card before the
\* defending card.
RECURSIVE CardsOf(_)
CardsOf(t) ==
  IF t = << >> THEN << >>
  ELSE (IF t[1][2] >= 0 THEN << t[1][1], t[1][2] >> ELSE << t[1][1] >>)
       \o CardsOf(Tail(t))

\* Sequence a is the beginning of sequence b.
IsPrefix(a, b) == Len(a) <= Len(b) /\ SubSeq(b, 1, Len(a)) = a

\* The state between the defender picking up the table and the refill.
AfterPickUp ==
  [Cur EXCEPT !.hands[defender] = @ \o CardsOf(table_cards),
              !.table_cards = << >>,
              !.phase = kAttack]

\* C18: a TakeCards step in phase Defense puts every table card, attacking
\* and defending, into the defender's hand, empties the table, sets the
\* phase to Attack, leaves attacker, defender and discard pile unchanged,
\* and then refills the hands from the deck.
C18_TakeCards ==
  [][TakeCards /\ phase = kDefense =>
       /\ table_cards' = << >>
       /\ phase' = kAttack
       /\ attacker' = attacker /\ defender' = defender
       /\ discard' = discard
       /\ IsPrefix(hands[defender] \o CardsOf(table_cards), hands'[defender])
       /\ IsPrefix(hands[attacker], hands'[attacker])
       /\ hands' = RefillHands(AfterPickUp).hands
       /\ deck_pos' = RefillHands(AfterPickUp).deck_pos
       /\ deck' = deck]_vars

\* The state after a TakeCards of the transfer variant in which the
\* defender picked up covered and uncovered entries and the attacker drew.
C18_Witness ==
  /\ transfers /\ last_action = kExtraActionTakeCards
  /\ phase = kAttack /\ table_cards = << >>
  /\ Len(hands[defender]) > kCardsPerPlayer + 1
  /\ Len(hands[attacker]) = kCardsPerPlayer
  /\ deck_pos > 2 * kCardsPerPlayer

\* ------------------------------------------------------------------------
\* C19  FinishDefense in phase Defense with every entry covered.
\* ------------------------------------------------------------------------
\* The state between the swap of the roles and the refill.
AfterSwap ==
  [Cur EXCEPT !.discard = @ \o CardsOf(table_cards),
              !.table_cards = << >>,
              !.attacker = defender,
              !.defender = attacker]

\* C19: a FinishDefense step in phase Defense with every entry covered
\* moves all table cards to the discard pile, empties the table, swaps
\* attacker and defender, refills the hands with the new attacker drawing
\* first, and sets the phase to Attack; neither hand loses a card.
C19_FinishDefense ==
  [][FinishDefense /\ phase = kDefense /\ Uncovered = {} =>
       /\ discard' = discard \o CardsOf(table_cards)
       /\ table_cards' = << >>
       /\ attacker' = defender /\ defender' = attacker
       /\ phase' = kAttack
       /\ hands' = RefillHands(AfterSwap).hands
       /\ deck_pos' = RefillHands(AfterSwap).deck_pos
       /\ (deck_pos < kNumCards /\ Len(hands[defender]) < kCardsPerPlayer =>
             /\ Len(hands'[defender]) > Len(hands[defender])
             /\ hands'[defender][Len(hands[defender]) + 1]
                  = deck[deck_pos + 1])
       /\ \A p \in 0..(kNumPlayers - 1) : IsPrefix(hands[p], hands'[p])
       /\ deck' = deck]_vars

\* The state after a FinishDefense of the transfer variant in which both
\* players drew.
C19_Witness ==
  /\ transfers /\ last_action = kExtraActionFinishDefense
  /\ phase = kAttack /\ table_cards = << >>
  /\ Len(discard) >= 4
  /\ deck_pos >= 2 * kCardsPerPlayer + 4
  /\ Len(hands[0]) = kCardsPerPlayer /\ Len(hands[1]) = kCardsPerPlayer

\* ------------------------------------------------------------------------
\* C20  Legality of Transfer (transfer variant, phase Defense).
\* ------------------------------------------------------------------------
\* C20: when the defender of the transfer variant is to move, Transfer is
\* legal if and only if the table has an entry, no entry is covered, and
\* the defender holds a card whose rank is the rank of some attacking card
\* on the table.
C20_TransferLegality ==
  transfers /\ DefenderToMove =>
    (kExtraActionTransfer \in LegalNow <=>
       /\ Len(table_cards) >= 1
       /\ \A i \in 1..Len(table_cards) : table_cards[i][2] < 0
       /\ \E c \in HandSet(defender) : \E i \in 1..Len(table_cards) :
            RankOf(c) = RankOf(table_cards[i][1]))

\* Transfer is legal against two uncovered entries.
C20_Witness ==
  /\ transfers /\ DefenderToMove
  /\ Len(table_cards) >= 2
  /\ kExtraActionTransfer \in LegalNow

\* Transfer is not legal although the defender holds a card of an
\* attacking rank: an entry is covered already.
TransferTooLate ==
  /\ transfers /\ DefenderToMove
  /\ ~(kExtraActionTransfer \in LegalNow)
  /\ Uncovered # {}
  /\ \E c \in HandSet(defender) : \E i \in 1..Len(table_cards) :
       RankOf(c) = RankOf(table_cards[i][1])

\* ------------------------------------------------------------------------
\* C21  Effect of Transfer (transfer variant).
\* ------------------------------------------------------------------------
\* C21: a Transfer step swaps attacker and defender and sets the phase to
\* Additional; table entries, both hands, deck cursor, discard pile and
\* trump are unchanged, so no card moves and no refill happens.
C21_TransferEffect ==
  [][Transfer =>
       /\ attacker' = defender /\ defender' = attacker
       /\ phase' = kAdditional
       /\ table_cards' = table_cards
       /\ hands' = hands
       /\ deck_pos' = deck_pos /\ deck' = deck
       /\ discard' = discard
       /\ trump_suit' = trump_suit /\ trump_card' = trump_card]_vars

\* The state after a Transfer made while a hand is short and the deck has
\* cards left: a refill would have drawn.
C21_Witness ==
  /\ JustTransferred
  /\ phase = kAdditional
  /\ table_cards # << >>
  /\ deck_pos < kNumCards
  /\ \E p \in 0..(kNumPlayers - 1) : Len(hands[p]) < kCardsPerPlayer

\* ------------------------------------------------------------------------
\* C22  After a Transfer the new attacker must add a card before it can
\* finish the attack (transfer variant).
\* ------------------------------------------------------------------------
\* C22: FinishAttack is not legal in the state a Transfer leads to; every
\* step taken from that state is the new attacker laying a card of its
\* hand as a new last entry of the table; and no FinishAttack step starts
\* in that state.  Hence the table gains an entry played by the new
\* attacker between a Transfer and the next FinishAttack.
C22_NoFinishRightAfterTransfer ==
  [][/\ Transfer => ~(kExtraActionFinishAttack \in LegalNow')
     /\ JustTransferred =>
          /\ ~(kExtraActionFinishAttack \in LegalNow)
          /\ ~FinishAttack
          /\ attacker' = attacker
          /\ Len(table_cards') = Len(table_cards) + 1
          /\ SubSeq(table_cards', 1, Len(table_cards)) = table_cards
          /\ table_cards'[Len(table_cards')][1] \in HandSet(attacker)
          /\ table_cards'[Len(table_cards')][2] < 0]_vars

\* The second Transfer of a round: two entries lie uncovered, the new
\* attacker can lay a card and cannot finish.
C22_Witness ==
  /\ JustTransferred /\ ~game_over
  /\ Len(table_cards) >= 2
  /\ LegalNow # {}
  /\ LegalNow \subseteq Cards

\* ------------------------------------------------------------------------
\* C23  Invalid actions.
\* ------------------------------------------------------------------------
\* The members of the state object.
GameState ==
  << transfers, deck, hands, table_cards, discard, trump_suit, trump_card,
     cards_dealt, deck_pos, attacker, defender, phase, round_starter,
     last_action, game_over >>

\* C23: applying to a state where a player is to move an action that is
\* not in its legal set leaves the whole game state unchanged.
C23_InvalidActionNoChange ==
  [][IllegalAction => UNCHANGED GameState]_vars

\* ------------------------------------------------------------------------
\* C24  Deck validation.
\* ------------------------------------------------------------------------
\* C24: no state exists whose deck is not a permutation of 0..35 (a state
\* is never created from an init_deck with a duplicate, with a value out
\* of range or with too few values).
C24_DeckIsPermutation ==
  /\ Len(deck) = kNumCards
  /\ \A card \in Cards : \E i \in 1..Len(deck) : deck[i] = card

\* ------------------------------------------------------------------------
\* C25  Serialization round trip.
\* ------------------------------------------------------------------------
\* C25: the state reconstructed from the action history of a reachable
\* state has the same text form and the same legal actions as that state.
C25_RoundTrip ==
  \A r \in Deserialized(Cur, history) :
    /\ StateToString(r) = StateToString(Cur)
    /\ Legal(r) = Legal(Cur)

\* ------------------------------------------------------------------------
\* C26  Game-length bound.
\* ------------------------------------------------------------------------
\* The chance actions of the history: the cards dealt and the trump reveal.
NumChanceActions == cards_dealt + (IF trump_card >= 0 THEN 1 ELSE 0)

NumPlayerActions == Len(history) - NumChanceActions

\* C26: the number of player actions applied since the initial state never
\* exceeds MaxGameLength() = 300, in both variants.
C26_GameLengthBound == NumPlayerActions <= MaxGameLength

\* The bound in the base game alone and in the transfer variant alone.
BaseWithinMaxGameLength == ~transfers => NumPlayerActions <= MaxGameLength

TransfersWithinMaxGameLength ==
  transfers => NumPlayerActions <= MaxGameLength

\* ------------------------------------------------------------------------
\* C27  Turn routing.
\* ------------------------------------------------------------------------

AttackerActions == HandSet(attacker) \cup { kExtraActionFinishAttack }

DefenderActions ==
  HandSet(defender)
    \cup { kExtraActionTakeCards, kExtraActionFinishDefense,
           kExtraActionTransfer }

\* C27: in every reachable state CurrentPlayer() is the terminal marker
\* once the game is over, and otherwise the chance player while dealing,
\* the attacker in the Attack and Additional phases and the defender in
\* the Defense phase; the legal actions are card outcomes while dealing,
\* cards of the attacker's hand or FinishAttack when the attacker moves,
\* and cards of the defender's hand, TakeCards, FinishDefense or Transfer
\* when the defender moves; dealing never coincides with a finished game.
C27_TurnRouting ==
  /\ game_over => CurrentPlayer(Cur) = kTerminalPlayerId /\ LegalNow = {}
  /\ phase = kChance =>
       /\ ~game_over
       /\ CurrentPlayer(Cur) = kChancePlayerId
       /\ LegalNow \subseteq Cards
  /\ AttackerToMove =>
       /\ CurrentPlayer(Cur) = attacker
       /\ LegalNow \subseteq AttackerActions
  /\ DefenderToMove =>
       /\ CurrentPlayer(Cur) = defender
       /\ LegalNow \subseteq DefenderActions

\* The attacker is to move in the Additional phase, after a Transfer, and
\* may play a card.
C27_Witness ==
  /\ AttackerToMove
  /\ phase = kAdditional
  /\ last_action = kExtraActionTransfer
  /\ LegalNow \cap HandSet(attacker) # {}

\* ------------------------------------------------------------------------
\* C28  Attacker card play.
\* ------------------------------------------------------------------------
\* C28: an AttackerPlaysCard step with the legal card c removes c from the
\* attacker's hand, appends the uncovered entry (c, none) to the table
\* without changing the entries before it, and sets the phase to Attack;
\* the defender's hand, the deck cursor, the discard pile and the roles are
\* unchanged and the attacker is the current player afterwards, unless the
\* card ended the game.
C28_AttackerCardPlay ==
  [][AttackerPlaysCard =>
       \E c \in LegalNow \cap Cards :
         /\ history' = Append(history, c)
         /\ hands'[attacker] = Erase(hands[attacker], c)
         /\ table_cards' = Append(table_cards, << c, -1 >>)
         /\ phase' = kAttack
         /\ hands'[defender] = hands[defender]
         /\ deck_pos' = deck_pos
         /\ discard' = discard
         /\ attacker' = attacker /\ defender' = defender
         /\ (game_over' \/ CurrentPlayer(Cur)' = attacker)]_vars

\* ------------------------------------------------------------------------
\* C29  Defender card play.
\* ------------------------------------------------------------------------
\* The table after the earliest uncovered entry was covered with card c.
CoveredWith(c) ==
  [table_cards EXCEPT ![UncoveredIndex(table_cards) + 1][2] = c]

AllCovered(t) == \A i \in 1..Len(t) : t[i][2] >= 0

\* C29: a DefenderPlaysCard step with the legal card c takes c out of the
\* defender's hand, keeping the other cards in their order, and sets c as
\* the defending card of the earliest uncovered entry, every other entry
\* unchanged; the phase becomes Additional exactly when every entry is then
\* covered, and otherwise stays Defense with the defender as the current
\* player.
C29_DefenderCardPlay ==
  [][DefenderPlaysCard =>
       \E c \in LegalNow \cap Cards :
         /\ history' = Append(history, c)
         /\ IsPrefix(Erase(hands[defender], c), hands'[defender])
         /\ \A i \in 1..Len(hands'[defender]) : hands'[defender][i] # c
         /\ table_cards' = CoveredWith(c)
         /\ IF AllCovered(table_cards')
            THEN phase' = kAdditional
            ELSE phase' = kDefense /\ CurrentPlayer(Cur)' = defender]_vars

\* ------------------------------------------------------------------------
\* C30  The refill algorithm.
\* ------------------------------------------------------------------------
\* The number of cards the hand of player p is short of 6 in state s.
Need(s, p) ==
  IF Len(s.hands[p]) < kCardsPerPlayer
  THEN kCardsPerPlayer - Len(s.hands[p]) ELSE 0

\* The number of cards a refill of state s deals.
NumDealt(s) ==
  Min(Len(s.deck) - s.deck_pos, Need(s, s.attacker) + Need(s, s.defender))

\* The player who receives the k-th card of a refill of state s: attacker
\* and defender in turn, the attacker first, while both are short, and
\* then the player who is still short.
Receiver(s, k) ==
  IF k <= 2 * Min(Need(s, s.attacker), Need(s, s.defender))
  THEN (IF k % 2 = 1 THEN s.attacker ELSE s.defender)
  ELSE IF Need(s, s.attacker) > Need(s, s.defender)
    THEN s.attacker ELSE s.defender

\* The cards a refill of state s deals to player p, in the order dealt.
DealtTo(s, p) ==
  LET ks == SelectSeq([k \in 1..NumDealt(s) |-> k],
                      LAMBDA k : Receiver(s, k) = p)
  IN [i \in 1..Len(ks) |-> s.deck[s.deck_pos + ks[i]]]

\* The step ends with the hands and the deck cursor that the refill of
\* state s as stated produces.
Refilled(s) ==
  /\ hands' = [p \in 0..(kNumPlayers - 1) |-> s.hands[p] \o DealtTo(s, p)]
  /\ deck_pos' = s.deck_pos + NumDealt(s)
  /\ deck' = s.deck
  /\ \/ deck_pos' = Len(deck)
     \/ \A p \in 0..(kNumPlayers - 1) : Len(hands'[p]) >= kCardsPerPlayer
  /\ \A p \in 0..(kNumPlayers - 1) :
       Len(s.hands[p]) >= kCardsPerPlayer => hands'[p] = s.hands[p]

\* The state after the card of a card step was played, before the
\* termination check.
AfterCard == PlayCard(Cur, CurrentPlayer(Cur), history'[Len(history')])

\* C30: every call of RefillHands, in a TakeCards step, in a FinishDefense
\* step with every entry covered and in the termination check after a card
\* that left both hands empty, deals from the deck cursor to attacker and
\* defender in turn, the attacker first, one card each to a hand below 6,
\* until both hands hold at least 6 cards or the deck is exhausted; a hand
\* of 6 or more cards receives none and the deck cursor advances by the
\* number of cards dealt.
C30_RefillAlgorithm ==
  [][/\ TakeCards /\ phase = kDefense => Refilled(AfterPickUp)
     /\ FinishDefense /\ phase = kDefense /\ Uncovered = {} =>
          Refilled(AfterSwap)
     /\ (AttackerPlaysCard \/ DefenderPlaysCard)
          /\ AfterCard.hands[0] = << >> /\ AfterCard.hands[1] = << >>
          /\ deck_pos < Len(deck) => Refilled(AfterCard)]_vars

\* The state after a refill that ran out of cards while both hands were
\* short: the last card of the deck went to the attacker and the card
\* before it to the defender.
C30_Witness ==
  /\ history # << >>
  /\ history[Len(history)]
       \in { kExtraActionTakeCards, kExtraActionFinishDefense }
  /\ phase = kAttack /\ table_cards = << >>
  /\ deck_pos = kNumCards
  /\ Len(hands[attacker]) < kCardsPerPlayer
  /\ Len(hands[defender]) < kCardsPerPlayer
  /\ Back(hands[attacker]) = deck[kNumCards]
  /\ Back(hands[defender]) = deck[kNumCards - 1]

\* ------------------------------------------------------------------------
\* C31  Hand sizes at the start of a round.
\* ------------------------------------------------------------------------
\* C31: in every reachable state in phase Attack with an empty table,
\* either the deck is exhausted or both hands hold at least 6 cards.
C31_RoundStartHands ==
  phase = kAttack /\ table_cards = << >> =>
    \/ deck_pos >= Len(deck)
    \/ \A p \in 0..(kNumPlayers - 1) : Len(hands[p]) >= kCardsPerPlayer

\* The start of a round after a refill that dealt to both hands and left
\* cards in the deck.
C31_Witness ==
  /\ phase = kAttack /\ table_cards = << >>
  /\ history # << >>
  /\ history[Len(history)]
       \in { kExtraActionTakeCards, kExtraActionFinishDefense }
  /\ kCardsPerPlayer * kNumPlayers + 2 <= deck_pos /\ deck_pos < Len(deck)
  /\ \A p \in 0..(kNumPlayers - 1) : Len(hands[p]) = kCardsPerPlayer

\* ------------------------------------------------------------------------
\* C32  The refill inside the termination check.
\* ------------------------------------------------------------------------
\* C32: no card step leaves both hands empty while the deck has cards, so
\* the termination check never refills: a step that is neither a chance
\* action, a TakeCards nor a FinishDefense leaves the deck cursor where it
\* was and adds no card to a hand.
C32_SafetyNetNeverFires ==
  [][/\ (AttackerPlaysCard \/ DefenderPlaysCard) =>
          ~(/\ AfterCard.hands[0] = << >>
            /\ AfterCard.hands[1] = << >>
            /\ deck_pos < Len(deck))
     /\ (AttackerPlaysCard \/ DefenderPlaysCard \/ FinishAttack \/ Transfer)
          => /\ deck_pos' = deck_pos
             /\ \A p \in 0..(kNumPlayers - 1) :
                  Len(hands'[p]) <= Len(hands[p])]_vars

\* ------------------------------------------------------------------------
\* C33  Termination of the base game.
\* ------------------------------------------------------------------------
\* The rank of a state of the base game, a natural number.  From the most
\* to the least significant part: the cards not yet discarded; the cards
\* the attacker can still lay, in its hand or left in the deck; and the
\* progress of the round, by the uncovered entries and the phase.  A chance
\* node ranks above every player state, by the chance actions still to
\* come.
RoundRank ==
  IF table_cards = << >> THEN 0
  ELSE 3 * NumUncovered + (IF phase = kDefense THEN 1 ELSE 2)

RoundRankLimit == 3 * kNumCards + 3

AttackerSupply == (Len(deck) - deck_pos) + Len(hands[attacker])

PlayerRank ==
  ((kNumCards - Len(discard)) * (kNumCards + 1) + AttackerSupply)
    * RoundRankLimit + RoundRank

PlayerRankLimit == (kNumCards + 1) * (kNumCards + 1) * RoundRankLimit

Rank ==
  IF phase = kChance
  THEN PlayerRankLimit
         + (kCardsPerPlayer * kNumPlayers + 1 - NumChanceActions)
  ELSE PlayerRank

\* C33: every step of the base game, chance or player action, strictly
\* lowers the rank of the state, a natural number; so no state is visited
\* twice, every sequence of legal actions is finite, and since a state
\* that is not terminal has a legal action the game reaches a terminal
\* state.
C33_BaseTermination ==
  /\ [](~transfers => Rank \in Nat /\ (~game_over => LegalNow # {}))
  /\ [][~transfers /\ Next => Rank' < Rank]_vars

\* A late state of a base game with the deck exhausted in which the
\* defender has just taken the table, so the same cards can be laid again.
C33_Witness ==
  /\ ~transfers /\ ~game_over
  /\ deck_pos = Len(deck)
  /\ history[Len(history)] = kExtraActionTakeCards
  /\ NumPlayerActions >= kNumCards
  /\ discard # << >>

\* ------------------------------------------------------------------------
\* C34  Termination of the transfer variant.
\* ------------------------------------------------------------------------
\* The hands, the table, the roles and the phase of state s.
Configuration(s) ==
  << s.hands, s.table_cards, s.attacker, s.defender, s.phase >>

\* Every action of the line is legal in the state in which it is applied,
\* starting from state s.
RECURSIVE IsLegalLine(_, _)
IsLegalLine(s, line) ==
  \/ line = << >>
  \/ /\ \E i \in 1..Len(Legal(s)) : Legal(s)[i] = Head(line)
     /\ IsLegalLine(ApplyAction(s, Head(line)), Tail(line))

\* Lines of card plays, FinishAttack, Transfer and TakeCards tried from
\* every state: an attack, a Transfer, an added card of the same rank and
\* a TakeCards, then the same with the roles exchanged.
ReturningLines == { Line10Cycle }

\* C34: in the transfer variant no legal sequence of card plays,
\* FinishAttack, Transfer and TakeCards actions brings the hands, the
\* table, the roles and the phase back to what they were before it.
C34_NoReturn ==
  transfers =>
    \A line \in ReturningLines :
      IsLegalLine(Cur, line) =>
        Configuration(Replay(Cur, line)) # Configuration(Cur)

\* ------------------------------------------------------------------------
\* C35  Role changes.
\* ------------------------------------------------------------------------
RolesUnchanged == attacker' = attacker /\ defender' = defender

RolesSwapped == attacker' = defender /\ defender' = attacker

\* C35: attacker and defender are the two players; the cards dealt before
\* the trump reveal, card plays, FinishAttack and TakeCards, with the
\* refills they run, leave the roles unchanged; the roles change only at
\* the trump reveal, which decides the first attacker, and by a
\* FinishDefense with every entry covered or a Transfer, which swap them.
C35_RoleChanges ==
  /\ [](attacker \in 0..(kNumPlayers - 1) /\ defender = 1 - attacker)
  /\ [][/\ (DealCard \/ AttackerPlaysCard \/ DefenderPlaysCard
              \/ FinishAttack \/ TakeCards) => RolesUnchanged
        /\ ~RolesUnchanged =>
             \/ RevealTrump
             \/ FinishDefense /\ Uncovered = {} /\ RolesSwapped
             \/ Transfer /\ RolesSwapped]_vars

\* The state after a Transfer, an added card, a FinishAttack and a
\* TakeCards with a refill: the player who transferred, not the attacker of
\* the first round, is still the attacker.
C35_Witness ==
  /\ transfers /\ last_action = kExtraActionTakeCards
  /\ Len(history) >= 3
  /\ history[Len(history) - 3] = kExtraActionTransfer
  /\ deck_pos > kCardsPerPlayer * kNumPlayers
  /\ attacker # round_starter

\* ------------------------------------------------------------------------
\* C36  Phase and table.
\* ------------------------------------------------------------------------
AllUncovered(t) == \A i \in 1..Len(t) : t[i][2] < 0

\* C36: in every reachable state, phase Defense implies a non-empty
\* table; phase Attack implies an empty table or an uncovered last entry;
\* phase Additional implies a non-empty table with every entry covered,
\* except that in the transfer variant the phase is Additional also right
\* after a Transfer, with every entry uncovered.
C36_PhaseTable ==
  /\ phase = kDefense => table_cards # << >>
  /\ phase = kAttack =>
       table_cards = << >> \/ Back(table_cards)[2] < 0
  /\ phase = kAdditional =>
       /\ table_cards # << >>
       /\ \/ AllCovered(table_cards)
          \/ /\ transfers
             /\ last_action = kExtraActionTransfer
             /\ AllUncovered(table_cards)

\* The Additional state after a second Transfer in a row: two entries,
\* both uncovered.
C36_Witness ==
  /\ transfers /\ phase = kAdditional
  /\ last_action = kExtraActionTransfer
  /\ Len(table_cards) >= 2
  /\ AllUncovered(table_cards)

\* ------------------------------------------------------------------------
\* C37  Covered entries are valid covers.
\* ------------------------------------------------------------------------
\* Entry i of the table is covered in this step.
BecomesCovered(i) ==
  /\ i <= Len(table_cards) /\ i <= Len(table_cards')
  /\ table_cards[i][2] < 0
  /\ table_cards'[i][2] >= 0

\* C37: in every reachable state the defending card of every covered
\* entry defends the attacking card of the entry under the trump suit,
\* by CanDefendCard and by the covering rule; an entry is covered only by a
\* card step of the defender, in phase Defense, with a card of the
\* defender's hand, and its attacking card stays what it was.
C37_ValidCovers ==
  /\ [](\A i \in 1..Len(table_cards) :
          table_cards[i][2] >= 0 =>
            /\ trump_suit = SuitOf(trump_card)
            /\ CanDefendCard(Cur, table_cards[i][2], table_cards[i][1])
            /\ Covers(table_cards[i][2], table_cards[i][1]))
  /\ [][\A i \in 1..kNumCards :
          BecomesCovered(i) =>
            /\ DefenderPlaysCard
            /\ CurrentPlayer(Cur) = defender
            /\ table_cards'[i][2] \in HandSet(defender)
            /\ table_cards'[i][2] = history'[Len(history')]
            /\ table_cards'[i][1] = table_cards[i][1]
            /\ defender' = defender]_vars

\* A table on which the defender of the round has covered two entries,
\* one of them with a trump on a card of another suit.
C37_Witness ==
  /\ phase = kDefense
  /\ \E i, j \in 1..Len(table_cards) :
       /\ i < j
       /\ table_cards[i][2] >= 0 /\ table_cards[j][2] >= 0
       /\ IsTrump(table_cards[j][2]) /\ ~IsTrump(table_cards[j][1])
  /\ Uncovered # {}

\* ------------------------------------------------------------------------
\* C38  A finished game stays finished.
\* ------------------------------------------------------------------------
\* C38: a finished game has no legal action, and a player action applied
\* to it, card or extra action, changes neither the hands, the table, the
\* deck cursor, the discard pile, the roles nor the phase; the game stays
\* over and Returns() keeps its value.
C38_TerminalStays ==
  /\ [](game_over => LegalNow = {} /\ IsTerminal(Cur))
  /\ [][ActionAfterEnd =>
          /\ hands' = hands
          /\ table_cards' = table_cards
          /\ deck_pos' = deck_pos /\ deck' = deck
          /\ discard' = discard
          /\ attacker' = attacker /\ defender' = defender
          /\ phase' = phase
          /\ game_over'
          /\ IsTerminal(Cur)'
          /\ Returns(Cur)' = Returns(Cur)]_vars

\* A finished game with cards on the table and in the loser's hand to
\* which TakeCards has been applied.
C38_Witness ==
  /\ game_over /\ pos = -1
  /\ history[Len(history)] = kExtraActionTakeCards
  /\ table_cards # << >>
  /\ Returns(Cur) # << 0, 0 >>

\* ------------------------------------------------------------------------
\* C39  First attacker without trumps.
\* ------------------------------------------------------------------------
NoTrumpInHands == TrumpsOf(0) \cup TrumpsOf(1) = {}

\* C39: if right after the trump reveal neither hand holds a card of the
\* trump suit, player 0 is the attacker and player 1 the defender.
C39_FirstAttackerWithoutTrumps ==
  [][RevealStep => (NoTrumpInHands => attacker = 0 /\ defender = 1)']_vars

\* Right after the reveal, twelve cards dealt and no trump among them.
C39_Witness ==
  /\ phase = kAttack
  /\ Len(history) = kCardsPerPlayer * kNumPlayers + 1
  /\ Len(hands[0]) = kCardsPerPlayer /\ Len(hands[1]) = kCardsPerPlayer
  /\ trump_suit = SuitOf(trump_card)
  /\ NoTrumpInHands
  /\ attacker = 0 /\ defender = 1

\* ------------------------------------------------------------------------
\* C40  Covered entries come first.
\* ------------------------------------------------------------------------
\* C40: in every reachable state no covered entry of the table comes after
\* an uncovered one, so the earliest uncovered entry, the one UncoveredIndex
\* finds, is the entry directly after the last covered one.
C40_CoveredPrefix ==
  /\ \A i, j \in 1..Len(table_cards) :
       i < j /\ table_cards[i][2] < 0 => table_cards[j][2] < 0
  /\ Uncovered # {} =>
       /\ UncoveredIndex(table_cards) + 1 \in Uncovered
       /\ \A i \in 1..UncoveredIndex(table_cards) : table_cards[i][2] >= 0
       /\ \A i \in (UncoveredIndex(table_cards) + 1)..Len(table_cards) :
            table_cards[i][2] < 0

\* A table with covered entries followed by more than one uncovered entry.
C40_Witness ==
  /\ Len(table_cards) >= 4
  /\ table_cards[1][2] >= 0 /\ table_cards[2][2] >= 0
  /\ table_cards[Len(table_cards) - 1][2] < 0
  /\ table_cards[Len(table_cards)][2] < 0

====
